---------------------------- MODULE Spec2Model ----------------------------
(***************************************************************************)
(* Trimble Thunderbolt TSIP interface (thunderbolt.py): the byte-stream    *)
(* framer serial_server, the packet decoder process_buffer and the fields  *)
(* of the Thunderbolt object they maintain.                                *)
(*                                                                         *)
(* Conventions.  A byte is a number in 0..255.  buffer and raw are the two *)
(* bytearray(BUFFER_SIZE) objects of serial_server, functions on           *)
(* 0..BUFFER_SIZE-1 as in the code.  self is the Thunderbolt object, a     *)
(* record of its fields.  latitude and longitude are held in units of 1e-4 *)
(* and altitude in units of 1e-1, the precision the code rounds them to.  *)
(* unixtime is held as days and seconds of the day (see Seconds).          *)
(* tm, a Python str, is a sequence of one-character strings.               *)
(* struct.unpack follows CPython: struct.error exactly when the length of  *)
(* the data differs from struct.calcsize(fmt).                             *)
(***************************************************************************)
EXTENDS Integers, Sequences, FiniteSets, Bags, TLC

VARIABLES
    self,          \* the Thunderbolt object's fields
    reader_state,  \* serial_server: reader_state
    buffer,        \* serial_server: buffer, the unescaped frame bytes
    raw,           \* serial_server: raw, the bytes as read
    raw_offset,    \* serial_server: raw_offset
    offset,        \* serial_server: offset
    wire,          \* device_port: bytes received and not yet read
    now,           \* milliseconds(): the monotonic clock
    sent,          \* the bytes the device sent last (wire when they arrived)
    state0,        \* reader_state when they arrived
    calls0,        \* pb_calls when they arrived
    narrivals,     \* number of arrivals so far
    nsleeps,       \* number of 20 ms sleeps so far
    pb_calls,      \* number of process_buffer invocations so far
    pb_frame,      \* buffer[0:offset] of the last invocation
    pb_prev,       \* self just before the last invocation
    pb_ok,         \* what the last invocation returned
    log,           \* what the last step logged
    raw_dump,      \* the raw bytes printed by the last failure report
    alarm_wake,    \* alarm_server: when its sleep ends; -1 when not scheduled
    nticks,        \* number of alarm_server iterations so far
    tick_prev,     \* self.connected just before the last of them
    tick_calls,    \* pb_calls at the last of them
    written,       \* device_port: the bytes written to it, in order
    status,        \* the dict get_status returned last, <<>> when none
    status_alias,  \* its 'satellites' is the list object self.satellites is
    yielded,       \* serial_server has slept since it last read a byte
    serial_exited, \* serial_server has left its loop and returned
    pending,       \* process_buffer in progress: its field writes still to come
    captured,      \* the bytes read since the DLE that started the last frame
    fed            \* the frames the device has sent whole, in order

vars == <<self, reader_state, buffer, raw, raw_offset, offset, wire, now, sent,
          state0, calls0, narrivals, nsleeps, pb_calls, pb_frame, pb_prev,
          pb_ok, log, raw_dump, alarm_wake, nticks, tick_prev, tick_calls,
          written, status, status_alias, yielded, serial_exited, pending,
          captured, fed>>

(* what only a task's return, a decode in progress, a byte read and the    *)
(* arrival of a frame change                                               *)
task_vars == <<serial_exited, pending, captured, fed>>

(* what only alarm_server changes *)
alarm_vars == <<alarm_wake, nticks, tick_prev, tick_calls>>

(* what the callers of the object see: its output and its status dict *)
api_vars == <<written, status, status_alias>>

-----------------------------------------------------------------------------
(* Program constants *)

ETX == 3
DLE == 16

RS_INIT == 0
RS_READ == 1
RS_READ_DLE == 2

BUFFER_SIZE == 256

GPS_EPOCH_AS_UNIX_TIME == 315964800

SLEEP_MS == 20

(* alarm_server: await asyncio.sleep(1.0); milliseconds() - 60000 *)
ALARM_SLEEP_MS == 1000

ALARM_TIMEOUT_MS == 60000

(* ignore_packets without 0x47 *)
ignore_packets_without_47 ==
    {\h43, \h45, \h49, \h55, \h56, \h57, \h58, \h59,
     \h5a, \h5b, \h5c, \h5f, \h70, \h83, \h84, \hbb}

ignore_packets ==
    {\h43, \h45, \h47, \h49, \h55, \h56, \h57, \h58, \h59,
     \h5a, \h5b, \h5c, \h5f, \h70, \h83, \h84, \hbb}

ignore_8f_packets ==
    {\h15, \h41, \h42, \h4a, \h4c, \ha0, \ha1, \ha2, \ha5}

(* the elif branches of process_buffer whose body is only pass *)
pass_packets ==
    {\h43, \h45, \h49, \h55, \h56, \h57, \h58, \h59, \h5a, \h5b, \h5c,
     \h5f, \h70, \h83, \h84, \hbb}

pass_8f_packets ==
    {\h15, \h41, \h42, \h4a, \h4c, \ha0, \ha1, \ha2, \ha5, \ha9}

-----------------------------------------------------------------------------
(* Bytes, slices and struct.unpack *)

Byte == 0..255

Pow2(n) == 2 ^ n

(* buffer[:n] as a sequence *)
Slice(buf, n) == [i \in 1..n |-> buf[i - 1]]

(* big-endian unsigned fields of the data d (a sequence), at 0-based position p *)
unpack_B(d, p) == d[p + 1]

unpack_H(d, p) == d[p + 1] * 256 + d[p + 2]

unpack_I(d, p) ==
    d[p + 1] * 16777216 + d[p + 2] * 65536 + d[p + 3] * 256 + d[p + 4]

(* signed fields *)
unpack_b(d, p) == IF d[p + 1] >= 128 THEN d[p + 1] - 256 ELSE d[p + 1]

unpack_h(d, p) ==
    IF unpack_H(d, p) >= 32768 THEN unpack_H(d, p) - 65536 ELSE unpack_H(d, p)

(* An IEEE 754 double, as a number of 1/64ths.  Exact for the doubles whose  *)
(* low 48 mantissa bits are zero and whose magnitude is 0 or in [1/4, 2^11). *)
unpack_d(d, p) ==
    LET sign == d[p + 1] \div 128
        e    == (d[p + 1] % 128) * 16 + d[p + 2] \div 16
        m    == d[p + 2] % 16
        mag  == IF e = 0 THEN 0
                ELSE IF e >= 1021 THEN Pow2(e - 1021) * (16 + m)
                ELSE (16 + m) \div Pow2(1021 - e)
    IN  IF sign = 1 THEN 0 - mag ELSE mag

(* round(n / d) to the nearest integer, ties to even, as Python's round *)
RoundDiv(n, d) ==
    LET q == n \div d
        r == n % d
    IN  IF 2 * r < d THEN q
        ELSE IF 2 * r > d THEN q + 1
        ELSE IF q % 2 = 0 THEN q ELSE q + 1

(* int(x * 57.29578 * 10000): the digits cut off, not rounded *)
to_degrees_truncated(x) ==
    IF x >= 0 THEN (x * 5729578) \div 640 ELSE 0 - ((0 - x) * 5729578) \div 640

(* round(x * 57.29578, 4), x in 1/64ths, the result in units of 1e-4 *)
to_degrees(x) == RoundDiv(x * 5729578, 640)

(* round(x * 3.2808398950131, 1), x in 1/64ths, the result in units of 1e-1 *)
to_feet(x) == RoundDiv(x * 82021, 160000)

(* A count of seconds n, held as days and seconds of the day:           *)
(* n = d * 86400 + s with 0 <= s < 86400.  Python's integers are          *)
(* unbounded; a week number times 604800 does not fit a 32-bit integer.   *)
Seconds(n) == [d |-> n \div 86400, s |-> n % 86400]

(* t + n seconds *)
plus_seconds(t, n) == [d |-> t.d + (t.s + n) \div 86400, s |-> (t.s + n) % 86400]

(* t + w * 7 * 86400 *)
plus_weeks(t, w) == [d |-> t.d + w * 7, s |-> t.s]

(* sorted(list(...)): insertion of each element into an ascending list *)
RECURSIVE insert_sorted(_, _)
insert_sorted(x, s) ==
    IF s = <<>> THEN <<x>>
    ELSE IF x <= Head(s) THEN <<x>> \o s
    ELSE <<Head(s)>> \o insert_sorted(x, Tail(s))

(* list(...) left in wire order *)
unsorted(s) == s

RECURSIVE sorted(_)
sorted(s) ==
    IF s = <<>> THEN <<>> ELSE insert_sorted(Head(s), sorted(Tail(s)))

(* f'{n:02d}' *)
Digit == <<"0", "1", "2", "3", "4", "5", "6", "7", "8", "9">>

RECURSIVE decimal(_)
decimal(n) ==
    IF n < 10 THEN <<Digit[n + 1]>>
    ELSE decimal(n \div 10) \o <<Digit[(n % 10) + 1]>>

(* f'{n:d}', without the padding *)
fmt_d(n) == decimal(n)

fmt_02d(n) == IF n < 10 THEN <<"0">> \o decimal(n) ELSE decimal(n)


-----------------------------------------------------------------------------
(* Thunderbolt.__init__ *)

Thunderbolt ==
    [run               |-> TRUE,
     connected         |-> FALSE,
     receiver_mode     |-> -1,
     discipline_mode   |-> -1,
     holdover_duration |-> -1,
     gps_status        |-> -1,
     minor_alarms      |-> 0,
     critical_alarms   |-> 0,
     latitude          |-> -10000,
     longitude         |-> -10000,
     altitude          |-> -10,
     satellites        |-> <<>>,
     fix_dim           |-> 0,
     unixtime          |-> Seconds(-1),
     last_unixtime     |-> Seconds(-1),
     tm                |-> <<>>,
     last_seen_tm      |-> 0]

-----------------------------------------------------------------------------
(* Thunderbolt.process_buffer.  Every branch yields what the call returns  *)
(* (ok), the object after the call (self) and what the call logged (log).  *)

Ret(ok, s, lg) == [ok |-> ok, self |-> s, log |-> lg]

(* except struct.error as exc: logging.error(exc); return False *)
struct_error(s) == Ret(FALSE, s, {"struct.error"})

(* process_13 that takes satellite 32 for one of the numbers above 32 *)
process_13_from_32(s, buf, off) ==
    LET bad_cmd == buf[1] IN
    IF bad_cmd = \h1c THEN Ret(TRUE, s, {})
    ELSE IF bad_cmd = \h3c /\ buf[2] >= 32 THEN Ret(TRUE, s, {})
    ELSE IF bad_cmd = \h8e /\ buf[2] = \h4e THEN Ret(TRUE, s, {})
    ELSE Ret(TRUE, s, {"unparsable packet 0x013"})

(* pkt_id == 0x13: the device rejected a command *)
process_13(s, buf, off) ==
    LET bad_cmd == buf[1] IN
    IF bad_cmd = \h1c THEN Ret(TRUE, s, {})
    ELSE IF bad_cmd = \h3c /\ buf[2] > 32 THEN Ret(TRUE, s, {})
    ELSE IF bad_cmd = \h8e /\ buf[2] = \h4e THEN Ret(TRUE, s, {})
    ELSE Ret(TRUE, s, {"unparsable packet 0x013"})

(* pkt_id == 0x47: signal levels, fmt '>xB' + 'Bf' * count *)
process_47(s, buf, off) ==
    LET count == buf[1] IN
    IF off # 2 + 5 * count THEN struct_error(s) ELSE Ret(TRUE, s, {})

(* the chain with a branch of its own for 0, which logs nothing *)
map_fix_dim_quiet_zero(fix_dim) ==
    IF fix_dim = 1 THEN [fix_dim |-> 1, log |-> {}]
    ELSE IF fix_dim = 3 THEN [fix_dim |-> 2, log |-> {}]
    ELSE IF fix_dim = 4 THEN [fix_dim |-> 3, log |-> {}]
    ELSE IF fix_dim = 5 THEN [fix_dim |-> 5, log |-> {}]
    ELSE IF fix_dim = 0 THEN [fix_dim |-> 0, log |-> {}]
    ELSE [fix_dim |-> 0, log |-> {"fix_dim not implemented"}]

(* the chain whose else branch stores the raw value *)
map_fix_dim_raw(fix_dim) ==
    IF fix_dim = 1 THEN [fix_dim |-> 1, log |-> {}]
    ELSE IF fix_dim = 3 THEN [fix_dim |-> 2, log |-> {}]
    ELSE IF fix_dim = 4 THEN [fix_dim |-> 3, log |-> {}]
    ELSE IF fix_dim = 5 THEN [fix_dim |-> 5, log |-> {}]
    ELSE [fix_dim |-> fix_dim, log |-> {"fix_dim not implemented"}]

(* the if/elif chain on bm & 0x07 of the 0x6d branch *)
map_fix_dim(fix_dim) ==
    IF fix_dim = 1 THEN [fix_dim |-> 1, log |-> {}]
    ELSE IF fix_dim = 3 THEN [fix_dim |-> 2, log |-> {}]
    ELSE IF fix_dim = 4 THEN [fix_dim |-> 3, log |-> {}]
    ELSE IF fix_dim = 5 THEN [fix_dim |-> 5, log |-> {}]
    ELSE [fix_dim |-> 0, log |-> {"fix_dim not implemented"}]

(* stuff[5:] of the 0x6d branch: the 'b' * num_sats fields *)
satellite_prns(data, off) == [i \in 1..(off - 18) |-> unpack_b(data, 17 + i)]

(* pkt_id == 0x6d: satellite selection list, fmt '>xBffff' + 'b' * num_sats *)
(* a 0x6d branch that adds the frame's PRNs to the list it has *)
process_6d_accumulates(s, buf, off) ==
    IF off < 18 THEN struct_error(s)
    ELSE
        LET data == Slice(buf, off)
            bm   == unpack_B(data, 1)
            fd   == map_fix_dim(bm % 8)
        IN  Ret(TRUE,
                [s EXCEPT !.fix_dim = fd.fix_dim,
                          !.satellites =
                              sorted(s.satellites \o satellite_prns(data, off))],
                fd.log)

process_6d(s, buf, off) ==
    IF off < 18 THEN struct_error(s)
    ELSE
        LET data == Slice(buf, off)
            bm   == unpack_B(data, 1)
            fd   == map_fix_dim(bm % 8)
        IN  Ret(TRUE,
                [s EXCEPT !.fix_dim = fd.fix_dim,
                          !.satellites = sorted(satellite_prns(data, off))],
                fd.log)

(* week_number += 1024, once *)
fix_week_number_once(week_number) == week_number + 1024

(* while week_number < 2048: week_number += 1024 *)
RECURSIVE fix_week_number(_)
fix_week_number(week_number) ==
    IF week_number < 2048 THEN fix_week_number(week_number + 1024)
    ELSE week_number

(* GPS_EPOCH_AS_UNIX_TIME + week_number * 7 * 86400 + time_of_week *)
unix_time(week_number, time_of_week, utc_offset) ==
    plus_seconds(plus_weeks(Seconds(GPS_EPOCH_AS_UNIX_TIME), week_number),
                 time_of_week)

(* f'{stuff[6]:02d}:{stuff[5]:02d}:{stuff[4]:02d}' *)
format_tm(hours, minutes, seconds) ==
    fmt_02d(hours) \o <<":">> \o fmt_02d(minutes) \o <<":">> \o fmt_02d(seconds)

(* process_8f_ab that sets connected before it unpacks *)
process_8f_ab_connects_first(s, buf, off) ==
    IF off # 18 THEN struct_error([s EXCEPT !.connected = TRUE])
    ELSE
        LET data         == Slice(buf, off)
            time_of_week == unpack_I(data, 2)
            week_number  == fix_week_number(unpack_H(data, 6))
            utc_offset   == unpack_h(data, 8)
        IN  Ret(TRUE,
                [s EXCEPT !.unixtime = unix_time(week_number, time_of_week, utc_offset),
                          !.tm = format_tm(unpack_B(data, 13), unpack_B(data, 12),
                                           unpack_B(data, 11)),
                          !.connected = TRUE],
                {})

(* pkt_sub_id == 0xab: primary timing packet, fmt '>xxIHhBBBBBBH' *)
process_8f_ab(s, buf, off) ==
    IF off # 18 THEN struct_error(s)
    ELSE
        LET data         == Slice(buf, off)
            time_of_week == unpack_I(data, 2)
            week_number  == fix_week_number(unpack_H(data, 6))
            utc_offset   == unpack_h(data, 8)
        IN  Ret(TRUE,
                [s EXCEPT !.unixtime = unix_time(week_number, time_of_week, utc_offset),
                          !.tm = format_tm(unpack_B(data, 13), unpack_B(data, 12),
                                           unpack_B(data, 11)),
                          !.connected = TRUE],
                {})

(* process_8f_ac with stuff[4] and stuff[5] exchanged *)
process_8f_ac_swapped_alarms(s, buf, off) ==
    IF off # 69 THEN struct_error(s)
    ELSE
        LET data == Slice(buf, off) IN
        Ret(TRUE,
            [s EXCEPT !.receiver_mode = unpack_B(data, 2),
                      !.discipline_mode = unpack_B(data, 3),
                      !.holdover_duration = unpack_I(data, 5),
                      !.critical_alarms = unpack_H(data, 11),
                      !.minor_alarms = unpack_H(data, 9),
                      !.gps_status = unpack_B(data, 13),
                      !.latitude = to_degrees(unpack_d(data, 37)),
                      !.longitude = to_degrees(unpack_d(data, 45)),
                      !.altitude = to_feet(unpack_d(data, 53))],
            {})

(* pkt_sub_id == 0xac: secondary timing packet,                            *)
(* fmt '>xxBBBIHHBBBBffIffdddxxxxxxxx'                                     *)
process_8f_ac(s, buf, off) ==
    IF off # 69 THEN struct_error(s)
    ELSE
        LET data == Slice(buf, off) IN
        Ret(TRUE,
            [s EXCEPT !.receiver_mode = unpack_B(data, 2),
                      !.discipline_mode = unpack_B(data, 3),
                      !.holdover_duration = unpack_I(data, 5),
                      !.critical_alarms = unpack_H(data, 9),
                      !.minor_alarms = unpack_H(data, 11),
                      !.gps_status = unpack_B(data, 13),
                      !.latitude = to_degrees(unpack_d(data, 37)),
                      !.longitude = to_degrees(unpack_d(data, 45)),
                      !.altitude = to_feet(unpack_d(data, 53))],
            {})

(* pkt_sub_id == 0xa7: individual satellite solutions *)
process_8f_a7(s, buf, off) ==
    LET msg_fmt == buf[2] IN
    IF msg_fmt = 0 THEN Ret(TRUE, s, {}) ELSE Ret(TRUE, s, {"Unhandled format"})

(* process_8f whose last branch does not return False *)
process_8f_accepts_unknown(s, buf, off) ==
    LET pkt_sub_id == buf[1] IN
    IF pkt_sub_id \in ignore_8f_packets THEN Ret(TRUE, s, {})
    ELSE IF pkt_sub_id \in pass_8f_packets THEN Ret(TRUE, s, {})
    ELSE IF pkt_sub_id = \ha7 THEN process_8f_a7(s, buf, off)
    ELSE IF pkt_sub_id = \ha8 THEN Ret(TRUE, s, {})
    ELSE IF pkt_sub_id = \hab THEN process_8f_ab(s, buf, off)
    ELSE IF pkt_sub_id = \hac THEN process_8f_ac(s, buf, off)
    ELSE Ret(TRUE, s, {"unknown packet type 8f"})

(* pkt_id == 0x8f *)
process_8f(s, buf, off) ==
    LET pkt_sub_id == buf[1] IN
    IF pkt_sub_id \in ignore_8f_packets THEN Ret(TRUE, s, {})
    ELSE IF pkt_sub_id \in pass_8f_packets THEN Ret(TRUE, s, {})
    ELSE IF pkt_sub_id = \ha7 THEN process_8f_a7(s, buf, off)
    ELSE IF pkt_sub_id = \ha8 THEN Ret(TRUE, s, {})
    ELSE IF pkt_sub_id = \hab THEN process_8f_ab(s, buf, off)
    ELSE IF pkt_sub_id = \hac THEN process_8f_ac(s, buf, off)
    ELSE Ret(FALSE, s, {"unknown packet type 8f"})

process_buffer(s, buf, off) ==
    LET pkt_id == buf[0] IN
    IF pkt_id \in ignore_packets THEN Ret(TRUE, s, {})
    ELSE IF pkt_id = \h13 THEN process_13(s, buf, off)
    ELSE IF pkt_id \in pass_packets THEN Ret(TRUE, s, {})
    ELSE IF pkt_id = \h47 THEN process_47(s, buf, off)
    ELSE IF pkt_id = \h6d THEN process_6d(s, buf, off)
    ELSE IF pkt_id = \h8f THEN process_8f(s, buf, off)
    ELSE Ret(FALSE, s, {"unknown packet type"})

-----------------------------------------------------------------------------
(* The device side of the wire: TSIP frames as the receiver sends them *)

Repeat(b, n) == [i \in 1..n |-> b]

pack_H(n) == <<n \div 256, n % 256>>

pack_h(n) == pack_H(IF n < 0 THEN n + 65536 ELSE n)

pack_I(n) == <<n \div 16777216, (n \div 65536) % 256, (n \div 256) % 256, n % 256>>

pack_b(n) == IF n < 0 THEN n + 256 ELSE n

(* the double with sign/exponent byte hi and exponent/mantissa byte lo *)
pack_d(hi, lo) == <<hi, lo, 0, 0, 0, 0, 0, 0>>

(* packet 0x8f 0xab: time_of_week, week_number, utc_offset, timing flag,   *)
(* seconds, minutes, hours, day of month, month, year                      *)
frame_ab(time_of_week, week_number, utc_offset, seconds, minutes, hours) ==
    <<\h8f, \hab>> \o pack_I(time_of_week) \o pack_H(week_number)
        \o pack_h(utc_offset) \o <<0, seconds, minutes, hours, 1, 1>>
        \o pack_H(2024)

(* packet 0x6d: bit field, PDOP, HDOP, VDOP, TDOP, then the PRNs *)
frame_6d(bm, prns) ==
    <<\h6d, bm>> \o Repeat(0, 16) \o [i \in 1..Len(prns) |-> pack_b(prns[i])]

(* packet 0x8f 0xac: receiver mode, disciplining mode, holdover duration,  *)
(* critical and minor alarms, gps status, latitude, longitude, altitude;   *)
(* the survey progress, activity, spare, float and DAC fields zero         *)
frame_ac(rm, dm, holdover, critical, minor, gps, lat, lon, alt) ==
    <<\h8f, \hac, rm, dm, 0>>
        \o pack_I(holdover) \o pack_H(critical) \o pack_H(minor)
        \o <<gps, 0, 0, 0>> \o Repeat(0, 20) \o lat \o lon \o alt
        \o Repeat(0, 8)

(* DLE stuffing: every DLE of the payload is sent twice *)
RECURSIVE stuff(_)
stuff(p) ==
    IF \A i \in 1..Len(p) : p[i] # DLE THEN p
    ELSE LET i == CHOOSE k \in 1..Len(p) :
                      p[k] = DLE /\ \A j \in 1..(k - 1) : p[j] # DLE
         IN  SubSeq(p, 1, i) \o <<DLE>> \o stuff(SubSeq(p, i + 1, Len(p)))

(* a frame on the wire: DLE, the stuffed payload, DLE ETX *)
tsip(p) == <<DLE>> \o stuff(p) \o <<DLE, ETX>>

-----------------------------------------------------------------------------
(* Thunderbolt.serial_server: one iteration of its while loop.  st holds   *)
(* the locals of serial_server and the object; b is the byte read.        *)

Locals ==
    [reader_state |-> reader_state, buffer |-> buffer, offset |-> offset,
     raw |-> raw, raw_offset |-> raw_offset, self |-> self, log |-> {},
     called |-> FALSE, pb_frame |-> pb_frame, pb_prev |-> pb_prev,
     pb_ok |-> pb_ok, raw_dump |-> raw_dump]

(* raw[raw_offset] = b; raw_offset += 1 *)
read_raw(st, b) ==
    [st EXCEPT !.raw = [@ EXCEPT ![st.raw_offset] = b], !.raw_offset = @ + 1]

(* step_INIT without raw[0] = b; raw_offset = 1 *)
step_INIT_keeps_raw(st, b) ==
    IF b = DLE
    THEN [st EXCEPT !.log = IF st.offset # 0 THEN @ \cup {"data lost."} ELSE @,
                    !.reader_state = RS_READ,
                    !.offset = 0]
    ELSE st

(* reader_state == RS_INIT *)
step_INIT(st, b) ==
    IF b = DLE
    THEN [st EXCEPT !.log = IF st.offset # 0 THEN @ \cup {"data lost."} ELSE @,
                    !.reader_state = RS_READ,
                    !.offset = 0,
                    !.raw = [@ EXCEPT ![0] = b],
                    !.raw_offset = 1]
    ELSE st

(* step_READ that also stores the DLE it meets *)
step_READ_keeps_DLE(st, b) ==
    IF b = DLE
    THEN [st EXCEPT !.reader_state = RS_READ_DLE,
                    !.buffer = [@ EXCEPT ![st.offset] = b],
                    !.offset = @ + 1]
    ELSE [st EXCEPT !.buffer = [@ EXCEPT ![st.offset] = b], !.offset = @ + 1]

(* step_READ that takes a plain ETX for the end of the frame *)
step_READ_ends_on_ETX(st, b) ==
    IF b = DLE
    THEN [st EXCEPT !.reader_state = RS_READ_DLE]
    ELSE IF b = ETX
    THEN [st EXCEPT !.reader_state = RS_INIT, !.offset = 0]
    ELSE [st EXCEPT !.buffer = [@ EXCEPT ![st.offset] = b], !.offset = @ + 1]

(* reader_state == RS_READ *)
step_READ(st, b) ==
    IF b = DLE
    THEN [st EXCEPT !.reader_state = RS_READ_DLE]
    ELSE [st EXCEPT !.buffer = [@ EXCEPT ![st.offset] = b], !.offset = @ + 1]

(* frame_complete without self.last_seen_tm = milliseconds() *)
frame_complete_unseen(st, t) ==
    LET s1 == st.self
        r  == process_buffer(s1, st.buffer, st.offset)
    IN  [st EXCEPT !.self = r.self,
                   !.log = (@ \cup r.log)
                             \cup (IF r.ok THEN {} ELSE {"error processing buffer!"}),
                   !.raw_dump = IF r.ok THEN @ ELSE Slice(st.raw, st.raw_offset),
                   !.called = TRUE,
                   !.pb_frame = Slice(st.buffer, st.offset),
                   !.pb_prev = s1,
                   !.pb_ok = r.ok,
                   !.reader_state = RS_INIT,
                   !.offset = 0,
                   !.raw_offset = 0]

(* a frame_complete that stores last_seen_tm only after a frame decoded *)
frame_complete_seen_when_decoded(st, t) ==
    LET f == frame_complete_unseen(st, t)
    IN  IF f.pb_ok THEN [f EXCEPT !.self.last_seen_tm = t] ELSE f

(* frame_complete without offset = 0 *)
frame_complete_keeps_offset(st, t) ==
    LET s1 == [st.self EXCEPT !.last_seen_tm = t]
        r  == process_buffer(s1, st.buffer, st.offset)
    IN  [st EXCEPT !.self = r.self,
                   !.log = (@ \cup r.log)
                             \cup (IF r.ok THEN {} ELSE {"error processing buffer!"}),
                   !.raw_dump = IF r.ok THEN @ ELSE Slice(st.raw, st.raw_offset),
                   !.called = TRUE,
                   !.pb_frame = Slice(st.buffer, st.offset),
                   !.pb_prev = s1,
                   !.pb_ok = r.ok,
                   !.reader_state = RS_INIT,
                   !.raw_offset = 0]

(* reader_state == RS_READ_DLE, b == ETX: the frame is complete *)
frame_complete(st, t) ==
    LET s1 == [st.self EXCEPT !.last_seen_tm = t]
        r  == process_buffer(s1, st.buffer, st.offset)
    IN  [st EXCEPT !.self = r.self,
                   !.log = (@ \cup r.log)
                             \cup (IF r.ok THEN {} ELSE {"error processing buffer!"}),
                   !.raw_dump = IF r.ok THEN @ ELSE Slice(st.raw, st.raw_offset),
                   !.called = TRUE,
                   !.pb_frame = Slice(st.buffer, st.offset),
                   !.pb_prev = s1,
                   !.pb_ok = r.ok,
                   !.reader_state = RS_INIT,
                   !.offset = 0,
                   !.raw_offset = 0]

(* step_READ_DLE that does not store the byte behind the DLE *)
step_READ_DLE_drops(st, b, t) ==
    IF b = ETX
    THEN frame_complete(st, t)
    ELSE [st EXCEPT !.reader_state = RS_READ]

(* reader_state == RS_READ_DLE *)
step_READ_DLE(st, b, t) ==
    IF b = ETX
    THEN frame_complete(st, t)
    ELSE [st EXCEPT !.buffer = [@ EXCEPT ![st.offset] = b],
                    !.offset = @ + 1,
                    !.reader_state = RS_READ]

(* check_overrun with the comparison off by one *)
check_overrun_early(st) ==
    IF st.offset >= BUFFER_SIZE - 1
    THEN [st EXCEPT !.log = @ \cup {"buffer overrun!"},
                    !.offset = 0,
                    !.reader_state = RS_INIT]
    ELSE st

(* check_overrun without the return to RS_INIT *)
check_overrun_keeps_state(st) ==
    IF st.offset >= BUFFER_SIZE
    THEN [st EXCEPT !.log = @ \cup {"buffer overrun!"}, !.offset = 0]
    ELSE st

(* check_overrun that compares with > *)
check_overrun_late(st) ==
    IF st.offset > BUFFER_SIZE
    THEN [st EXCEPT !.log = @ \cup {"buffer overrun!"},
                    !.offset = 0,
                    !.reader_state = RS_INIT]
    ELSE st

(* if offset >= BUFFER_SIZE *)
check_overrun(st) ==
    IF st.offset >= BUFFER_SIZE
    THEN [st EXCEPT !.log = @ \cup {"buffer overrun!"},
                    !.offset = 0,
                    !.reader_state = RS_INIT]
    ELSE st

(* a raw overflow check that compares with > *)
check_raw_overflow_late(st) ==
    IF st.raw_offset > BUFFER_SIZE
    THEN [st EXCEPT !.log = @ \cup {"raw (debugging) buffer overflow!"},
                    !.raw_offset = 0]
    ELSE st

(* if raw_offset >= BUFFER_SIZE *)
check_raw_overflow(st) ==
    IF st.raw_offset >= BUFFER_SIZE
    THEN [st EXCEPT !.log = @ \cup {"raw (debugging) buffer overflow!"},
                    !.raw_offset = 0]
    ELSE st

(* the body of the loop when device_port.any() *)
serial_server_step(st, b, t) ==
    LET s1 == read_raw(st, b)
        s2 == IF s1.reader_state = RS_INIT THEN step_INIT(s1, b)
              ELSE IF s1.reader_state = RS_READ THEN step_READ(s1, b)
              ELSE IF s1.reader_state = RS_READ_DLE THEN step_READ_DLE(s1, b, t)
              ELSE [s1 EXCEPT !.log = @ \cup {"Unhandled reader state"}]
    IN  check_raw_overflow(check_overrun(s2))

-----------------------------------------------------------------------------
(* Bounds and the inputs drawn within them *)

MaxArrivals == 2    \* arrivals of bytes from the device
MaxSleeps == 1      \* 20 ms sleeps of serial_server
MaxSats == 3        \* PRNs in a generated 0x6d frame
MaxExtra == 1       \* bytes added to or cut from a fixed-size frame

ZeroBuffer == [i \in 0..(BUFFER_SIZE - 1) |-> 0]

(* the buffer after the bytes of f were stored from offset 0 on *)
Overlay(buf, f) ==
    [i \in 0..(BUFFER_SIZE - 1) |-> IF i < Len(f) THEN f[i + 1] ELSE buf[i]]

SampleAB == frame_ab(100, 1000, 18, 30, 15, 12)

Sample6D == frame_6d(\h34, <<5, -1, 2>>)

SampleAC ==
    frame_ac(7, 6, 3600, \h0102, \h0304, 8,
             pack_d(\h3f, \he0), pack_d(\hbf, \hf8), pack_d(\h40, \h59))

(* what the device may send in one burst *)
WirePayloads ==
    {<<\h99>>, <<\h13, \h1c>>, <<\h8f>>, <<DLE>>,
     SampleAB, Sample6D, SampleAC, Repeat(\h99, 255)}

WireGarbage == {<<DLE>>, <<ETX>>, <<DLE, DLE>>, <<DLE, ETX>>}

WireUnterminated == {<<DLE>> \o Repeat(\h55, n) : n \in {255, 256}}

WireSegments ==
    {tsip(p) : p \in WirePayloads} \cup WireGarbage \cup WireUnterminated

(* frames handed to process_buffer directly *)
IdBytes ==
    {\h43, \h45, \h47, \h49, \h55, \h56, \h57, \h58, \h59, \h5a, \h5b, \h5c,
     \h5f, \h70, \h83, \h84, \hbb, \h13, \h6d, \h8f, \h99, 0, \hff}

SubBytes ==
    {\h15, \h41, \h42, \h4a, \h4c, \ha0, \ha1, \ha2, \ha5, \ha7, \ha8, \ha9,
     \hab, \hac, 0, \h1c, \h3c, \h8e, \h99}

ThirdBytes == {<<>>, <<0>>, <<32>>, <<33>>, <<\h4e>>}

ShortFrames ==
    {<<>>} \cup {<<b>> : b \in IdBytes}
        \cup {<<b, c>> \o t : b \in IdBytes, c \in SubBytes, t \in ThirdBytes}

TowValues == {0, 100, 604799}

WeekValues == {0, 1000, 1023, 1024, 1500, 2047, 2048, 2100, 3000}

UtcValues == {0, 18, -1}

ClockValues == {<<30, 15, 12>>, <<0, 0, 0>>, <<9, 5, 7>>, <<59, 59, 23>>, <<100, 255, 10>>}

TimingFrames ==
    {frame_ab(t, w, u, c[1], c[2], c[3]) :
        t \in TowValues, w \in WeekValues, u \in UtcValues, c \in ClockValues}

BitMasks == {0, 1, 2, 3, 4, 5, 6, 7, \h34, \hf1}

Prns == {-1, 2, 5, 31}

PrnLists == UNION {[1..n -> Prns] : n \in 0..MaxSats}

SatFrames == {frame_6d(bm, prns) : bm \in BitMasks, prns \in PrnLists}

HealthFrames ==
    {frame_ac(m, m, h, a, 255 - a, m, x, y, z) :
        m \in {0, 7}, h \in {0, 3600}, a \in {0, \h0102},
        x \in {pack_d(\h3f, \he0)}, y \in {pack_d(\hbf, \hf8), pack_d(0, 0)},
        z \in {pack_d(\h40, \h59)}}

(* 0x8f 0xac frames whose integer fields all differ; latitude 1.0 and     *)
(* -0.25, longitude -2.0 and 3.125, altitude 0, -10.0 and 256.0           *)
StatusFrames ==
    {frame_ac(1, 2, \h01020304, \h0506, \h0708, 9, x, y, z) :
        x \in {pack_d(\h3f, \hf0), pack_d(\hbf, \hd0)},
        y \in {pack_d(\hc0, 0), pack_d(\h40, \h09)},
        z \in {pack_d(0, 0), pack_d(\hc0, \h24), pack_d(\h40, \h70)}}

(* a fixed-size frame with up to MaxExtra bytes missing or added *)
Resized(f) ==
    {SubSeq(f, 1, Len(f) - k) : k \in 1..MaxExtra}
        \cup {f \o Repeat(0, k) : k \in 1..MaxExtra}

WrongSizeFrames ==
    UNION {Resized(f) : f \in {SampleAB, SampleAC}}
        \cup {SubSeq(Sample6D, 1, n) : n \in 3..17}

DecodeFrames ==
    ShortFrames \cup TimingFrames \cup SatFrames \cup HealthFrames
        \cup StatusFrames \cup WrongSizeFrames

(* objects and buffers that earlier frames leave behind *)
AfterTraffic ==
    LET s1 == process_buffer(Thunderbolt, Overlay(ZeroBuffer, SampleAB), 18).self
        s2 == process_buffer(s1, Overlay(ZeroBuffer, SampleAC), 69).self
    IN  process_buffer(s2, Overlay(ZeroBuffer, Sample6D), 21).self

PriorSelves == {Thunderbolt, AfterTraffic}

PriorBuffers ==
    {ZeroBuffer, Overlay(ZeroBuffer, <<\h8f, \ha0, 1>>),
     Overlay(ZeroBuffer, <<\h13, \h1c, 0>>), Overlay(ZeroBuffer, SampleAB)}

-----------------------------------------------------------------------------
(* The running system: main() schedules serial_server on the Thunderbolt   *)
(* object; the device sends bytes; serial_server reads them one at a time. *)

Init ==
    /\ self = Thunderbolt
    /\ reader_state = RS_INIT
    /\ buffer = ZeroBuffer
    /\ raw = ZeroBuffer
    /\ raw_offset = 0
    /\ offset = 0
    /\ wire = <<>>
    /\ now = 0
    /\ sent = <<>>
    /\ state0 = RS_INIT
    /\ calls0 = 0
    /\ narrivals = 0
    /\ nsleeps = 0
    /\ pb_calls = 0
    /\ pb_frame = <<>>
    /\ pb_prev = Thunderbolt
    /\ pb_ok = TRUE
    /\ log = {}
    /\ raw_dump = <<>>
    /\ alarm_wake = -1
    /\ nticks = 0
    /\ tick_prev = FALSE
    /\ tick_calls = 0
    /\ written = <<>>
    /\ status = <<>>
    /\ status_alias = FALSE
    /\ yielded = FALSE
    /\ serial_exited = FALSE
    /\ pending = <<>>
    /\ fed = <<>>
    /\ captured = <<>>

(* the device sends a burst of bytes *)
Arrive ==
    /\ wire = <<>>
    /\ narrivals < MaxArrivals
    /\ \E seg \in WireSegments :
        /\ wire' = seg
        /\ sent' = seg
    /\ state0' = reader_state
    /\ calls0' = pb_calls
    /\ narrivals' = narrivals + 1
    /\ UNCHANGED <<self, reader_state, buffer, raw, raw_offset, offset, now,
                   nsleeps, pb_calls, pb_frame, pb_prev, pb_ok, log, raw_dump>>
    /\ UNCHANGED alarm_vars
    /\ UNCHANGED api_vars
    /\ UNCHANGED yielded
    /\ UNCHANGED task_vars

(* self.satellites = sorted(list(stuff[5:])) is reached: the frame is a    *)
(* 0x6d packet that unpacked.  The assignment binds a new list object.     *)
assigns_satellites(frame, ok) ==
    ok /\ Len(frame) >= 18 /\ frame[1] = \h6d

(* the bytes read since the DLE that made serial_server leave RS_INIT:    *)
(* that DLE starts them, every byte read after it is added, and bytes read *)
(* in RS_INIT that start no frame are not part of any frame                *)
capture(c, rs, b) ==
    IF rs = RS_INIT
    THEN IF b = DLE THEN <<DLE>> ELSE c
    ELSE Append(c, b)

(* while self.run: if device_port.any(): bs = device_port.read(1) ... *)
ReadByte ==
    /\ self.run
    /\ wire # <<>>
    /\ pending = <<>>
    /\ LET st == serial_server_step(Locals, Head(wire), now) IN
        /\ self' = st.self
        /\ reader_state' = st.reader_state
        /\ buffer' = st.buffer
        /\ raw' = st.raw
        /\ raw_offset' = st.raw_offset
        /\ offset' = st.offset
        /\ pb_calls' = IF st.called THEN pb_calls + 1 ELSE pb_calls
        /\ pb_frame' = st.pb_frame
        /\ pb_prev' = st.pb_prev
        /\ pb_ok' = st.pb_ok
        /\ log' = st.log
        /\ raw_dump' = st.raw_dump
        /\ status_alias' =
               (status_alias /\
                   ~(st.called /\ assigns_satellites(st.pb_frame, st.pb_ok)))
    /\ wire' = Tail(wire)
    /\ UNCHANGED <<now, sent, state0, calls0, narrivals, nsleeps>>
    /\ UNCHANGED alarm_vars
    /\ UNCHANGED <<written, status>>
    /\ yielded' = FALSE
    /\ captured' = capture(captured, reader_state, Head(wire))
    /\ UNCHANGED <<serial_exited, pending, fed>>

(* a loop that sleeps 20 ms whether or not data is available *)
Sleep_with_data ==
    /\ self.run
    /\ nsleeps < MaxSleeps
    /\ now' = now + SLEEP_MS
    /\ nsleeps' = nsleeps + 1
    /\ UNCHANGED <<self, reader_state, buffer, raw, raw_offset, offset, wire,
                   sent, state0, calls0, narrivals, pb_calls, pb_frame,
                   pb_prev, pb_ok, log, raw_dump>>
    /\ UNCHANGED alarm_vars
    /\ UNCHANGED api_vars
    /\ yielded' = TRUE
    /\ UNCHANGED task_vars

(* while self.run: ... else: await asyncio.sleep(0.020) *)
Sleep ==
    /\ self.run
    /\ wire = <<>>
    /\ nsleeps < MaxSleeps
    /\ now' = now + SLEEP_MS
    /\ nsleeps' = nsleeps + 1
    /\ UNCHANGED <<self, reader_state, buffer, raw, raw_offset, offset, wire,
                   sent, state0, calls0, narrivals, pb_calls, pb_frame,
                   pb_prev, pb_ok, log, raw_dump>>
    /\ UNCHANGED alarm_vars
    /\ UNCHANGED api_vars
    /\ yielded' = TRUE
    /\ UNCHANGED task_vars

Next == Arrive \/ ReadByte \/ Sleep

Spec == Init /\ [][Next]_vars

-----------------------------------------------------------------------------
(* The same system when the stream is damaged: bytes of a frame that has   *)
(* no end, or the start of a frame, sent ahead of a well-formed frame.     *)

MaxBursts == 1      \* arrivals of bytes in SpecStream and SpecMonitor

(* DLE and 255 or 256 frame bytes, the last arriving plainly or after a    *)
(* DLE: the frame buffer is full after 256                                 *)
StreamFilling ==
    {<<DLE>> \o Repeat(\h55, n) : n \in {255, 256}}
        \cup {<<DLE>> \o Repeat(\h55, 255) \o <<DLE, \h55>>}

(* DLE and more than 256 frame bytes without DLE ETX; in the second the    *)
(* 257th frame byte is 0x10, sent as DLE DLE                               *)
StreamOverlong ==
    {<<DLE>> \o Repeat(\h55, 257),
     <<DLE>> \o Repeat(\h55, 256) \o <<DLE, DLE, \h55>>}

(* the start of a frame: DLE, an id and some data, not terminated *)
StreamPartial == {<<DLE, \h6d, 1>>, <<DLE, \h8f>>}

StreamPayloads == {SampleAB, <<\h13, \h1c>>}

StreamSegments ==
    StreamFilling \cup StreamOverlong
        \cup {tsip(p) : p \in StreamPayloads}
        \cup {j \o tsip(p) : j \in StreamOverlong \cup StreamPartial,
                               p \in StreamPayloads}

(* the device sends a burst of bytes *)
ArriveStream ==
    /\ wire = <<>>
    /\ narrivals < MaxBursts
    /\ \E seg \in StreamSegments :
        /\ wire' = seg
        /\ sent' = seg
    /\ state0' = reader_state
    /\ calls0' = pb_calls
    /\ narrivals' = narrivals + 1
    /\ UNCHANGED <<self, reader_state, buffer, raw, raw_offset, offset, now,
                   nsleeps, pb_calls, pb_frame, pb_prev, pb_ok, log, raw_dump>>
    /\ UNCHANGED alarm_vars
    /\ UNCHANGED api_vars
    /\ UNCHANGED yielded
    /\ UNCHANGED task_vars

NextStream == ArriveStream \/ ReadByte \/ Sleep

SpecStream == Init /\ [][NextStream]_vars

-----------------------------------------------------------------------------
(* The same system when the device sends frames that process_buffer        *)
(* rejects (0x99 and 0x10 are ids it does not know), of lengths around the *)
(* capacity of raw.                                                        *)

(* frames of 1 and of 253 to 255 bytes; frames with stuffed DLE bytes,     *)
(* sent as 5, 7, 256 and 257 bytes                                         *)
CapturePayloads ==
    {<<\h99>>, <<DLE>>, <<\h99, DLE, ETX>>,
     Repeat(\h99, 253), Repeat(\h99, 254), Repeat(\h99, 255),
     Repeat(\h99, 251) \o <<DLE>>, Repeat(\h99, 252) \o <<DLE>>}

(* a frame, also behind a byte that belongs to no frame; a frame with a    *)
(* DLE that is followed by neither DLE nor ETX                              *)
CaptureSegments ==
    {g \o tsip(p) : g \in {<<>>, <<\h55>>}, p \in CapturePayloads}
        \cup {<<DLE, \h99, DLE, \h55, DLE, ETX>>}

(* the device sends a burst of bytes *)
ArriveCapture ==
    /\ wire = <<>>
    /\ narrivals < MaxBursts
    /\ \E seg \in CaptureSegments :
        /\ wire' = seg
        /\ sent' = seg
    /\ state0' = reader_state
    /\ calls0' = pb_calls
    /\ narrivals' = narrivals + 1
    /\ UNCHANGED <<self, reader_state, buffer, raw, raw_offset, offset, now,
                   nsleeps, pb_calls, pb_frame, pb_prev, pb_ok, log, raw_dump>>
    /\ UNCHANGED alarm_vars
    /\ UNCHANGED api_vars
    /\ UNCHANGED yielded
    /\ UNCHANGED task_vars

NextCapture == ArriveCapture \/ ReadByte \/ Sleep

SpecCapture == Init /\ [][NextCapture]_vars

-----------------------------------------------------------------------------
(* The same system when serial_server is somewhere in a frame, or between  *)
(* frames, and the device then sends one well-formed frame after another.  *)

MaxFed == 3         \* frames sent whole in SpecResync

(* what the device sent first: a DLE alone, or DLE and as many frame bytes *)
(* as the buffer takes less one, plainly or with a DLE behind              *)
ResyncPartial ==
    {<<DLE>>,
     <<DLE>> \o Repeat(\h55, BUFFER_SIZE - 1),
     <<DLE>> \o Repeat(\h55, BUFFER_SIZE - 2) \o <<DLE>>}

(* frames of 1 to 4, 254 and 255 bytes; one holds a stuffed DLE before an  *)
(* ETX, one ends with a stuffed DLE, one starts with a stuffed DLE and an  *)
(* ETX and one is the byte ETX alone                                       *)
ResyncPayloads ==
    {<<\h45>>, <<\h99, DLE, ETX, \h99>>, Repeat(\h99, BUFFER_SIZE - 2),
     Repeat(\h99, BUFFER_SIZE - 1), <<\h99, DLE>>, <<DLE, ETX, \h99>>,
     <<ETX>>}

(* the device sends the start of a frame and stops *)
ArrivePartial ==
    /\ wire = <<>>
    /\ narrivals = 0
    /\ \E seg \in ResyncPartial :
        /\ wire' = seg
        /\ sent' = seg
    /\ state0' = reader_state
    /\ calls0' = pb_calls
    /\ narrivals' = narrivals + 1
    /\ UNCHANGED <<self, reader_state, buffer, raw, raw_offset, offset, now,
                   nsleeps, pb_calls, pb_frame, pb_prev, pb_ok, log, raw_dump>>
    /\ UNCHANGED alarm_vars
    /\ UNCHANGED api_vars
    /\ UNCHANGED yielded
    /\ UNCHANGED task_vars

(* the device sends a well-formed frame *)
ArriveFrame ==
    /\ wire = <<>>
    /\ Len(fed) < MaxFed
    /\ \E p \in ResyncPayloads :
        /\ wire' = tsip(p)
        /\ sent' = tsip(p)
        /\ fed' = Append(fed, p)
    /\ state0' = reader_state
    /\ calls0' = pb_calls
    /\ narrivals' = narrivals + 1
    /\ UNCHANGED <<self, reader_state, buffer, raw, raw_offset, offset, now,
                   nsleeps, pb_calls, pb_frame, pb_prev, pb_ok, log, raw_dump>>
    /\ UNCHANGED alarm_vars
    /\ UNCHANGED api_vars
    /\ UNCHANGED yielded
    /\ UNCHANGED <<serial_exited, pending, captured>>

NextResync == ArrivePartial \/ ArriveFrame \/ ReadByte

SpecResync == Init /\ [][NextResync]_vars

-----------------------------------------------------------------------------
(* The Thunderbolt object with both of its servers running: alarm_server   *)
(* beside serial_server.  (main() creates the serial_server task only.)    *)
(* The two are asyncio tasks: alarm_server runs only while serial_server   *)
(* is in its sleep, which it enters when the port has no byte for it and   *)
(* leaves to read what has arrived meanwhile, to the last byte.            *)

MaxTicks == 2       \* iterations of alarm_server

(* if self.last_seen_tm >= milliseconds() - 60000 *)
seen_recently_inclusive(last_seen_tm, t) == last_seen_tm >= t - ALARM_TIMEOUT_MS

(* if self.last_seen_tm > milliseconds() - 60000 *)
seen_recently(last_seen_tm, t) == last_seen_tm > t - ALARM_TIMEOUT_MS

(* milliseconds() when alarm_server is started, the last frame seen at 0 *)
MonitorClocks == {0, 4000, 58000, 59000, 60000}

(* a frame that decodes and one that does not *)
(* a timing frame, a frame of an unknown id, a frame of an ignored id, and *)
(* one byte that is no DLE                                                 *)
MonitorSegments ==
    {tsip(SampleAB), tsip(<<\h99>>), tsip(<<\h45>>), <<\h55>>}

(* serial_server before its first byte, and after it has read DLE and 255  *)
(* frame bytes 0x55 (raw_offset is back at 0 after the 256th byte read)    *)
NoFrame ==
    [reader_state |-> RS_INIT, buffer |-> ZeroBuffer, offset |-> 0,
     raw |-> ZeroBuffer, raw_offset |-> 0, captured |-> <<>>]

MidFrame ==
    [reader_state |-> RS_READ,
     buffer |-> Overlay(ZeroBuffer, Repeat(\h55, BUFFER_SIZE - 1)),
     offset |-> BUFFER_SIZE - 1,
     raw |-> Overlay(ZeroBuffer, <<DLE>> \o Repeat(\h55, BUFFER_SIZE - 1)),
     raw_offset |-> 0,
     captured |-> <<DLE>> \o Repeat(\h55, BUFFER_SIZE - 1)]

MonitorReaders == {NoFrame, MidFrame}

InitMonitor ==
    /\ self \in PriorSelves
    /\ \E r \in MonitorReaders :
        /\ reader_state = r.reader_state
        /\ buffer = r.buffer
        /\ raw = r.raw
        /\ raw_offset = r.raw_offset
        /\ offset = r.offset
        /\ state0 = r.reader_state
        /\ captured = r.captured
    /\ wire = <<>>
    /\ now \in MonitorClocks
    /\ sent = <<>>
    /\ calls0 = 0
    /\ narrivals = 0
    /\ nsleeps = 0
    /\ pb_calls = 0
    /\ pb_frame = <<>>
    /\ pb_prev = Thunderbolt
    /\ pb_ok = TRUE
    /\ log = {}
    /\ raw_dump = <<>>
    /\ alarm_wake = now + ALARM_SLEEP_MS
    /\ nticks = 0
    /\ tick_prev = FALSE
    /\ tick_calls = 0
    /\ written = <<>>
    /\ status = <<>>
    /\ status_alias = FALSE
    /\ yielded = FALSE
    /\ serial_exited = FALSE
    /\ pending = <<>>
    /\ fed = <<>>

(* the device sends a frame *)
ArriveMonitor ==
    /\ wire = <<>>
    /\ narrivals < MaxBursts
    /\ \E seg \in MonitorSegments :
        /\ wire' = seg
        /\ sent' = seg
    /\ state0' = reader_state
    /\ calls0' = pb_calls
    /\ narrivals' = narrivals + 1
    /\ UNCHANGED <<self, reader_state, buffer, raw, raw_offset, offset, now,
                   nsleeps, pb_calls, pb_frame, pb_prev, pb_ok, log, raw_dump>>
    /\ UNCHANGED alarm_vars
    /\ UNCHANGED api_vars
    /\ UNCHANGED yielded
    /\ UNCHANGED task_vars

(* serial_server finds no data and sleeps, 20 ms at a time, until the      *)
(* sleep of alarm_server ends                                              *)
SleepUntilAlarm ==
    /\ self.run
    /\ wire = <<>>
    /\ now < alarm_wake
    /\ now' = alarm_wake
    /\ UNCHANGED <<self, reader_state, buffer, raw, raw_offset, offset, wire,
                   sent, state0, calls0, narrivals, nsleeps, pb_calls,
                   pb_frame, pb_prev, pb_ok, log, raw_dump>>
    /\ UNCHANGED alarm_vars
    /\ UNCHANGED api_vars
    /\ yielded' = TRUE
    /\ UNCHANGED task_vars

(* an alarm_server that also clears the time of day when traffic is stale *)
alarm_server_resets ==
    /\ alarm_wake >= 0
    /\ now >= alarm_wake
    /\ (wire = <<>> \/ yielded \/ serial_exited)
    /\ pending = <<>>
    /\ nticks < MaxTicks
    /\ self' = IF seen_recently(self.last_seen_tm, now)
               THEN [self EXCEPT !.connected = TRUE]
               ELSE [self EXCEPT !.connected = FALSE, !.tm = <<>>]
    /\ alarm_wake' = IF self.run THEN now + ALARM_SLEEP_MS ELSE -1
    /\ nticks' = nticks + 1
    /\ tick_prev' = self.connected
    /\ tick_calls' = pb_calls
    /\ UNCHANGED <<reader_state, buffer, raw, raw_offset, offset, wire, now,
                   sent, state0, calls0, narrivals, nsleeps, pb_calls,
                   pb_frame, pb_prev, pb_ok, log, raw_dump>>
    /\ UNCHANGED api_vars
    /\ UNCHANGED yielded
    /\ UNCHANGED task_vars

(* while self.run: await asyncio.sleep(1.0); if self.last_seen_tm > ...     *)
(* The step is what follows the sleep: the comparison, then the test of    *)
(* self.run, which starts the next sleep or ends the task.  It runs when   *)
(* serial_server is suspended or has returned.                             *)
alarm_server ==
    /\ alarm_wake >= 0
    /\ now >= alarm_wake
    /\ (wire = <<>> \/ yielded \/ serial_exited)
    /\ pending = <<>>
    /\ nticks < MaxTicks
    /\ self' = [self EXCEPT !.connected = seen_recently(self.last_seen_tm, now)]
    /\ alarm_wake' = IF self.run THEN now + ALARM_SLEEP_MS ELSE -1
    /\ nticks' = nticks + 1
    /\ tick_prev' = self.connected
    /\ tick_calls' = pb_calls
    /\ UNCHANGED <<reader_state, buffer, raw, raw_offset, offset, wire, now,
                   sent, state0, calls0, narrivals, nsleeps, pb_calls,
                   pb_frame, pb_prev, pb_ok, log, raw_dump>>
    /\ UNCHANGED api_vars
    /\ UNCHANGED yielded
    /\ UNCHANGED task_vars

NextMonitor ==
    ArriveMonitor \/ ReadByte \/ Sleep \/ SleepUntilAlarm \/ alarm_server

SpecMonitor == InitMonitor /\ [][NextMonitor]_vars

-----------------------------------------------------------------------------
(* serial_server and alarm_server with a device that may keep sending: it  *)
(* can deliver the next byte while earlier ones are still unread, so that  *)
(* device_port.any() is true in every iteration.  asyncio runs a task that *)
(* is ready: each task's step is weakly fair.                              *)

MaxPending == 2

(* the bytes of such a stream: no DLE, so the reader stays where it is *)
FeedBytes == {\h55}

InitBusy ==
    /\ InitMonitor
    /\ self = Thunderbolt
    /\ reader_state = RS_INIT
    /\ now = 0

(* the device sends one more byte while bytes are pending *)
Feed ==
    /\ wire # <<>>
    /\ Len(wire) < MaxPending
    /\ \E b \in FeedBytes :
        /\ wire' = Append(wire, b)
        /\ sent' = Append(wire, b)
    /\ state0' = reader_state
    /\ calls0' = pb_calls
    /\ UNCHANGED <<self, reader_state, buffer, raw, raw_offset, offset, now,
                   narrivals, nsleeps, pb_calls, pb_frame, pb_prev, pb_ok,
                   log, raw_dump>>
    /\ UNCHANGED alarm_vars
    /\ UNCHANGED api_vars
    /\ UNCHANGED yielded
    /\ UNCHANGED task_vars

NextBusy ==
    \/ ArriveMonitor
    \/ Feed
    \/ ReadByte
    \/ SleepUntilAlarm
    \/ alarm_server

SpecBusy ==
    /\ InitBusy
    /\ [][NextBusy]_vars
    /\ WF_vars(ReadByte)
    /\ WF_vars(SleepUntilAlarm)
    /\ WF_vars(alarm_server)

-----------------------------------------------------------------------------
(* serial_server and alarm_server when the owner of the object clears the  *)
(* run flag.  Each task tests the flag at the top of its loop; asyncio     *)
(* runs a task that is ready, so each task's step is weakly fair.          *)

InitStop ==
    /\ InitMonitor
    /\ self = Thunderbolt
    /\ reader_state = RS_INIT
    /\ now = 0

(* thunderbolt.run = False *)
Stop ==
    /\ self.run
    /\ self' = [self EXCEPT !.run = FALSE]
    /\ UNCHANGED <<reader_state, buffer, raw, raw_offset, offset, wire, now,
                   sent, state0, calls0, narrivals, nsleeps, pb_calls,
                   pb_frame, pb_prev, pb_ok, log, raw_dump>>
    /\ UNCHANGED alarm_vars
    /\ UNCHANGED api_vars
    /\ UNCHANGED yielded
    /\ UNCHANGED task_vars

(* a serial_server that leaves its loop only between frames *)
serial_server_return_between_frames ==
    /\ ~self.run
    /\ reader_state = RS_INIT
    /\ ~serial_exited
    /\ serial_exited' = TRUE
    /\ UNCHANGED <<self, reader_state, buffer, raw, raw_offset, offset, wire,
                   now, sent, state0, calls0, narrivals, nsleeps, pb_calls,
                   pb_frame, pb_prev, pb_ok, log, raw_dump, pending,
                   captured, fed>>
    /\ UNCHANGED alarm_vars
    /\ UNCHANGED api_vars
    /\ UNCHANGED yielded

(* while self.run: is false at the top of serial_server's loop *)
serial_server_return ==
    /\ ~self.run
    /\ ~serial_exited
    /\ serial_exited' = TRUE
    /\ UNCHANGED <<self, reader_state, buffer, raw, raw_offset, offset, wire,
                   now, sent, state0, calls0, narrivals, nsleeps, pb_calls,
                   pb_frame, pb_prev, pb_ok, log, raw_dump, pending,
                   captured, fed>>
    /\ UNCHANGED alarm_vars
    /\ UNCHANGED api_vars
    /\ UNCHANGED yielded

(* serial_server has returned; the clock reaches the end of the sleep of   *)
(* alarm_server                                                            *)
AlarmSleepEnds ==
    /\ serial_exited
    /\ alarm_wake >= 0
    /\ now < alarm_wake
    /\ now' = alarm_wake
    /\ UNCHANGED <<self, reader_state, buffer, raw, raw_offset, offset, wire,
                   sent, state0, calls0, narrivals, nsleeps, pb_calls,
                   pb_frame, pb_prev, pb_ok, log, raw_dump>>
    /\ UNCHANGED alarm_vars
    /\ UNCHANGED api_vars
    /\ UNCHANGED yielded
    /\ UNCHANGED task_vars

NextStop ==
    \/ ArriveMonitor
    \/ ReadByte
    \/ SleepUntilAlarm
    \/ alarm_server
    \/ Stop
    \/ serial_server_return
    \/ AlarmSleepEnds

SpecStop ==
    /\ InitStop
    /\ [][NextStop]_vars
    /\ WF_vars(ReadByte)
    /\ WF_vars(SleepUntilAlarm)
    /\ WF_vars(alarm_server)
    /\ WF_vars(serial_server_return)
    /\ WF_vars(AlarmSleepEnds)

-----------------------------------------------------------------------------
(* process_buffer on its own: one frame, stored in a buffer that earlier   *)
(* frames have used, decoded by an object that earlier frames have set.    *)

InitDecode ==
    /\ self \in PriorSelves
    /\ reader_state = RS_INIT
    /\ buffer \in PriorBuffers
    /\ raw = ZeroBuffer
    /\ raw_offset = 0
    /\ offset = 0
    /\ wire = <<>>
    /\ now = 0
    /\ sent \in DecodeFrames
    /\ state0 = RS_INIT
    /\ calls0 = 0
    /\ narrivals = 0
    /\ nsleeps = 0
    /\ pb_calls = 0
    /\ pb_frame = <<>>
    /\ pb_prev = Thunderbolt
    /\ pb_ok = TRUE
    /\ log = {}
    /\ raw_dump = <<>>
    /\ alarm_wake = -1
    /\ nticks = 0
    /\ tick_prev = FALSE
    /\ tick_calls = 0
    /\ written = <<>>
    /\ status = <<>>
    /\ status_alias = FALSE
    /\ yielded = FALSE
    /\ serial_exited = FALSE
    /\ pending = <<>>
    /\ fed = <<>>
    /\ captured = <<>>

(* self.process_buffer(buffer, offset) with buffer[0:offset] = sent *)
Decode ==
    /\ pb_calls = 0
    /\ LET buf == Overlay(buffer, sent)
           r   == process_buffer(self, buf, Len(sent))
       IN  /\ buffer' = buf
           /\ self' = r.self
           /\ pb_ok' = r.ok
           /\ log' = r.log
           /\ status_alias' =
                  (status_alias /\ ~assigns_satellites(sent, r.ok))
    /\ pb_frame' = sent
    /\ pb_prev' = self
    /\ pb_calls' = 1
    /\ UNCHANGED <<reader_state, raw, raw_offset, offset, wire, now, sent,
                   state0, calls0, narrivals, nsleeps, raw_dump>>
    /\ UNCHANGED alarm_vars
    /\ UNCHANGED <<written, status>>
    /\ UNCHANGED yielded
    /\ UNCHANGED task_vars

NextDecode == Decode

SpecDecode == InitDecode /\ [][NextDecode]_vars

-----------------------------------------------------------------------------
(* The decoder called twice on the same frame: process_buffer(buffer,      *)
(* offset) once more, with the buffer and the object as the first call     *)
(* left them.                                                              *)

DecodeAgain ==
    /\ pb_calls = 1
    /\ LET r == process_buffer(self, buffer, Len(sent))
       IN  /\ self' = r.self
           /\ pb_ok' = r.ok
           /\ log' = r.log
           /\ status_alias' =
                  (status_alias /\ ~assigns_satellites(sent, r.ok))
    /\ pb_frame' = sent
    /\ pb_prev' = self
    /\ pb_calls' = 2
    /\ UNCHANGED <<reader_state, buffer, raw, raw_offset, offset, wire, now,
                   sent, state0, calls0, narrivals, nsleeps, raw_dump>>
    /\ UNCHANGED alarm_vars
    /\ UNCHANGED <<written, status>>
    /\ UNCHANGED yielded
    /\ UNCHANGED task_vars

NextRepeat == Decode \/ DecodeAgain

SpecRepeat == InitDecode /\ [][NextRepeat]_vars

-----------------------------------------------------------------------------
(* A caller of get_status beside the decoder and alarm_server.  The dict   *)
(* get_status returns is a new object; its values are the objects the      *)
(* fields refer to.  All are immutable but the list self.satellites, which *)
(* the dict shares with the Thunderbolt object until the object's field is *)
(* bound to another list (status_alias).                                   *)

(* return {'connected': self.connected, ..., 'time': self.tm} *)
status_of(s) ==
    [connected         |-> s.connected,
     receiver_mode     |-> s.receiver_mode,
     discipline_mode   |-> s.discipline_mode,
     holdover_duration |-> s.holdover_duration,
     gps_status        |-> s.gps_status,
     minor_alarms      |-> s.minor_alarms,
     critical_alarms   |-> s.critical_alarms,
     latitude          |-> s.latitude,
     longitude         |-> s.longitude,
     altitude          |-> s.altitude,
     satellites        |-> s.satellites,
     fix_dim           |-> s.fix_dim,
     unixtime          |-> s.unixtime,
     time              |-> s.tm]

StatusFramesProbe == {SampleAB, SampleAC, Sample6D, <<\h99>>}

StatusClocks == {0, ALARM_TIMEOUT_MS}

(* what the caller appends to the list it was given *)
CallerPrns == {31}

InitStatus ==
    /\ self \in PriorSelves
    /\ reader_state = RS_INIT
    /\ buffer = ZeroBuffer
    /\ raw = ZeroBuffer
    /\ raw_offset = 0
    /\ offset = 0
    /\ wire = <<>>
    /\ now \in StatusClocks
    /\ sent \in StatusFramesProbe
    /\ state0 = RS_INIT
    /\ calls0 = 0
    /\ narrivals = 0
    /\ nsleeps = 0
    /\ pb_calls = 0
    /\ pb_frame = <<>>
    /\ pb_prev = Thunderbolt
    /\ pb_ok = TRUE
    /\ log = {}
    /\ raw_dump = <<>>
    /\ alarm_wake = now + ALARM_SLEEP_MS
    /\ nticks = 0
    /\ tick_prev = FALSE
    /\ tick_calls = 0
    /\ written = <<>>
    /\ status = <<>>
    /\ status_alias = FALSE
    /\ yielded = FALSE
    /\ serial_exited = FALSE
    /\ pending = <<>>
    /\ fed = <<>>
    /\ captured = <<>>

(* a caller that runs in the middle of a process_buffer call *)
get_status_preempting ==
    /\ status' = <<status_of(self)>>
    /\ status_alias' = TRUE
    /\ UNCHANGED <<self, reader_state, buffer, raw, raw_offset, offset, wire,
                   now, sent, state0, calls0, narrivals, nsleeps, pb_calls,
                   pb_frame, pb_prev, pb_ok, log, raw_dump, written>>
    /\ UNCHANGED alarm_vars
    /\ UNCHANGED yielded
    /\ UNCHANGED task_vars

(* d = thunderbolt.get_status(), by a task that runs while serial_server   *)
(* is suspended: never inside a process_buffer call, which has no await    *)
get_status ==
    /\ pending = <<>>
    /\ status' = <<status_of(self)>>
    /\ status_alias' = TRUE
    /\ UNCHANGED <<self, reader_state, buffer, raw, raw_offset, offset, wire,
                   now, sent, state0, calls0, narrivals, nsleeps, pb_calls,
                   pb_frame, pb_prev, pb_ok, log, raw_dump, written>>
    /\ UNCHANGED alarm_vars
    /\ UNCHANGED yielded
    /\ UNCHANGED task_vars

(* the caller changes the dict it holds: d['satellites'].append(prn),      *)
(* which changes the list in place, or d['fix_dim'] = value                *)
ChangeReturned ==
    /\ status # <<>>
    /\ \/ /\ Len(status[1].satellites) <= MaxSats
          /\ \E prn \in CallerPrns :
              /\ status' =
                     <<[status[1] EXCEPT !.satellites = Append(@, prn)]>>
              /\ self' = IF status_alias
                         THEN [self EXCEPT !.satellites = Append(@, prn)]
                         ELSE self
       \/ /\ \E v \in 0..1 :
              status' = <<[status[1] EXCEPT !.fix_dim = v]>>
          /\ self' = self
    /\ UNCHANGED <<reader_state, buffer, raw, raw_offset, offset, wire, now,
                   sent, state0, calls0, narrivals, nsleeps, pb_calls,
                   pb_frame, pb_prev, pb_ok, log, raw_dump, written,
                   status_alias>>
    /\ UNCHANGED alarm_vars
    /\ UNCHANGED yielded
    /\ UNCHANGED task_vars

NextStatus ==
    Decode \/ get_status \/ ChangeReturned \/ SleepUntilAlarm \/ alarm_server

SpecStatus == InitStatus /\ [][NextStatus]_vars

-----------------------------------------------------------------------------
(* process_buffer one assignment at a time.  serial_server has read a      *)
(* frame up to its closing DLE; the step that reads ETX stores             *)
(* last_seen_tm and calls process_buffer, whose assignments to the fields  *)
(* then follow one by one, in the order of the source.  The locals of      *)
(* serial_server, which no other task sees, take their values after the    *)
(* call at once.                                                           *)

(* the fields process_buffer assigns, in the order of lines 804-807 (0x8f  *)
(* 0xab), 838-846 (0x8f 0xac) and 456-472 (0x6d)                           *)
WriteOrder ==
    <<"unixtime", "tm", "connected",
      "receiver_mode", "discipline_mode", "holdover_duration",
      "critical_alarms", "minor_alarms", "gps_status",
      "latitude", "longitude", "altitude",
      "fix_dim", "satellites">>

(* the assignments that change the object from s to t *)
field_writes(s, t) ==
    LET Changed(f) == t[f] # s[f] IN SelectSeq(WriteOrder, Changed)

AtomicFrames == {SampleAB, SampleAC, Sample6D}

(* what the device has sent behind the frame *)
AtomicTails == {<<>>, tsip(<<\h45>>)}

InitAtomic ==
    /\ self \in PriorSelves
    /\ reader_state = RS_READ_DLE
    /\ \E f \in AtomicFrames, tail \in AtomicTails :
        /\ buffer = Overlay(ZeroBuffer, f)
        /\ offset = Len(f)
        /\ raw = Overlay(ZeroBuffer, <<DLE>> \o stuff(f) \o <<DLE>>)
        /\ raw_offset = Len(stuff(f)) + 2
        /\ captured = <<DLE>> \o stuff(f) \o <<DLE>>
        /\ wire = <<ETX>> \o tail
        /\ sent = tsip(f) \o tail
    /\ now = ALARM_TIMEOUT_MS
    /\ state0 = RS_INIT
    /\ calls0 = 0
    /\ narrivals = 1
    /\ nsleeps = 0
    /\ pb_calls = 0
    /\ pb_frame = <<>>
    /\ pb_prev = Thunderbolt
    /\ pb_ok = TRUE
    /\ log = {}
    /\ raw_dump = <<>>
    /\ alarm_wake = now
    /\ nticks = 0
    /\ tick_prev = FALSE
    /\ tick_calls = 0
    /\ written = <<>>
    /\ status = <<>>
    /\ status_alias = FALSE
    /\ yielded = TRUE
    /\ serial_exited = FALSE
    /\ pending = <<>>
    /\ fed = <<>>

(* RS_READ_DLE, b == ETX: self.last_seen_tm = milliseconds(), then         *)
(* process_buffer is entered                                               *)
BeginDecode ==
    /\ self.run
    /\ wire # <<>>
    /\ pending = <<>>
    /\ reader_state = RS_READ_DLE
    /\ Head(wire) = ETX
    /\ LET st == serial_server_step(Locals, Head(wire), now)
           s1 == [self EXCEPT !.last_seen_tm = now]
       IN
        /\ self' = s1
        /\ pending' = field_writes(s1, st.self)
        /\ reader_state' = st.reader_state
        /\ buffer' = st.buffer
        /\ raw' = st.raw
        /\ raw_offset' = st.raw_offset
        /\ offset' = st.offset
        /\ pb_calls' = pb_calls + 1
        /\ pb_frame' = st.pb_frame
        /\ pb_prev' = st.pb_prev
        /\ pb_ok' = st.pb_ok
        /\ log' = st.log
        /\ raw_dump' = st.raw_dump
        /\ status_alias' =
               (status_alias /\ ~assigns_satellites(st.pb_frame, st.pb_ok))
    /\ wire' = Tail(wire)
    /\ yielded' = FALSE
    /\ captured' = capture(captured, reader_state, Head(wire))
    /\ UNCHANGED <<now, sent, state0, calls0, narrivals, nsleeps>>
    /\ UNCHANGED alarm_vars
    /\ UNCHANGED <<written, status, serial_exited, fed>>

(* the next assignment self.<field> = ... of the call in progress *)
WriteField ==
    /\ pending # <<>>
    /\ LET f == Head(pending)
           t == process_buffer(pb_prev, Overlay(buffer, pb_frame), Len(pb_frame)).self
       IN  self' = [self EXCEPT ![f] = t[f]]
    /\ pending' = Tail(pending)
    /\ UNCHANGED <<reader_state, buffer, raw, raw_offset, offset, wire, now,
                   sent, state0, calls0, narrivals, nsleeps, pb_calls,
                   pb_frame, pb_prev, pb_ok, log, raw_dump>>
    /\ UNCHANGED alarm_vars
    /\ UNCHANGED api_vars
    /\ UNCHANGED <<yielded, serial_exited, captured, fed>>

(* a byte that does not end a frame *)
ReadByteWithinFrame ==
    /\ ReadByte
    /\ ~(reader_state = RS_READ_DLE /\ Head(wire) = ETX)

NextAtomic ==
    \/ BeginDecode
    \/ WriteField
    \/ ReadByteWithinFrame
    \/ get_status
    \/ alarm_server

SpecAtomic == InitAtomic /\ [][NextAtomic]_vars

-----------------------------------------------------------------------------
(* Frame extraction and escape handling *)

(* sent is DLE, a payload of 1..255 bytes without DLE, DLE, ETX *)
SentIsPlainFrame ==
    /\ Len(sent) \in 4..258
    /\ sent[1] = DLE
    /\ sent[Len(sent) - 1] = DLE
    /\ sent[Len(sent)] = ETX
    /\ \A i \in 2..(Len(sent) - 2) : sent[i] # DLE

SentPayload == SubSeq(sent, 2, Len(sent) - 2)

(* C1: when the bytes DLE, p, DLE, ETX (p of 1..255 bytes, none DLE) reach *)
(* a reader in INIT, process_buffer is not invoked before the last byte is *)
(* read and is invoked exactly once by then, with buffer[0:offset] = p,    *)
(* and the reader is then in INIT with offset = 0 and raw_offset = 0,      *)
(* whatever the decode returned.                                           *)
C1_FrameExtraction ==
    (SentIsPlainFrame /\ state0 = RS_INIT) =>
        /\ wire # <<>> => pb_calls = calls0
        /\ wire = <<>> =>
            /\ pb_calls = calls0 + 1
            /\ pb_frame = SentPayload
            /\ reader_state = RS_INIT
            /\ offset = 0
            /\ raw_offset = 0

(* a 255-byte payload was delivered whole and its decode failed *)
C1_Witness ==
    /\ SentIsPlainFrame
    /\ state0 = RS_INIT
    /\ wire = <<>>
    /\ pb_calls = calls0 + 1
    /\ Len(pb_frame) = 255
    /\ pb_frame = SentPayload
    /\ ~pb_ok

(* C2, as claimed: in READ a DLE moves to READ_DLE and appends nothing; in *)
(* READ_DLE every byte other than ETX is appended as it is, offset grows   *)
(* by one and the reader returns to READ.                                  *)
C2_Original ==
    [][ReadByte =>
        /\ (reader_state = RS_READ /\ Head(wire) = DLE) =>
            /\ reader_state' = RS_READ_DLE
            /\ buffer' = buffer
            /\ offset' = offset
        /\ (reader_state = RS_READ_DLE /\ Head(wire) # ETX) =>
            /\ buffer' = [buffer EXCEPT ![offset] = Head(wire)]
            /\ offset' = offset + 1
            /\ reader_state' = RS_READ]_vars

(* C2, amended: as claimed, except that when the appended byte is the      *)
(* 256th of the frame (offset was 255) the overrun check of the same       *)
(* iteration sets offset to 0 and the reader to INIT.  A stuffed pair      *)
(* DLE DLE so adds one 0x10 to the frame, and DLE X adds X alone.          *)
C2_EscapeHandling ==
    [][ReadByte =>
        /\ (reader_state = RS_READ /\ Head(wire) = DLE) =>
            /\ reader_state' = RS_READ_DLE
            /\ buffer' = buffer
            /\ offset' = offset
        /\ (reader_state = RS_READ_DLE /\ Head(wire) # ETX) =>
            /\ buffer' = [buffer EXCEPT ![offset] = Head(wire)]
            /\ IF offset + 1 < BUFFER_SIZE
               THEN offset' = offset + 1 /\ reader_state' = RS_READ
               ELSE offset' = 0 /\ reader_state' = RS_INIT]_vars

(* the frame DLE DLE DLE DLE ETX was delivered as the one byte 0x10 *)
C2_Witness ==
    /\ sent = <<DLE, DLE, DLE, DLE, ETX>>
    /\ state0 = RS_INIT
    /\ wire = <<>>
    /\ pb_calls = calls0 + 1
    /\ pb_frame = <<DLE>>

-----------------------------------------------------------------------------
(* The decoder.  After Decode, pb_frame is the frame, pb_prev the object   *)
(* before the call, self the object after it, pb_ok what the call returned. *)

Decoded == pb_calls = 1

(* the ReceiverState fields *)
StateFields ==
    {"connected", "receiver_mode", "discipline_mode", "holdover_duration",
     "gps_status", "minor_alarms", "critical_alarms", "latitude", "longitude",
     "altitude", "satellites", "fix_dim", "unixtime", "tm"}

StateUnchanged == \A f \in StateFields : self[f] = pb_prev[f]

HasId(id) == Len(pb_frame) >= 1 /\ pb_frame[1] = id

HasSubId(id, sub) == Len(pb_frame) >= 2 /\ pb_frame[1] = id /\ pb_frame[2] = sub

(* the ignore lists as the specification gives them *)
IgnoredIds ==
    {\h43, \h45, \h47, \h49, \h55, \h56, \h57, \h58, \h59, \h5a, \h5b, \h5c,
     \h5f, \h70, \h83, \h84, \hbb}

Ignored8fSubIds ==
    {\h15, \h41, \h42, \h4a, \h4c, \ha0, \ha1, \ha2, \ha5, \ha7, \ha8, \ha9}

(* C3: a frame whose id is not 0x13, 0x6d or 0x8f and not on the ignore    *)
(* list, and a 0x8f frame whose sub-id is not 0xab or 0xac and not on the  *)
(* 0x8f ignore list, makes process_buffer return False and leaves every    *)
(* ReceiverState field as it was.                                          *)
C3_Unrecognized ==
    Decoded =>
        /\ (\E id \in Byte \ (IgnoredIds \cup {\h13, \h6d, \h8f}) : HasId(id))
              => (~pb_ok /\ StateUnchanged)
        /\ (\E sub \in Byte \ (Ignored8fSubIds \cup {\hab, \hac}) : HasSubId(\h8f, sub))
              => (~pb_ok /\ StateUnchanged)

(* a frame with id 0x99 was refused by an object that earlier frames had set *)
C3_Witness ==
    /\ Decoded
    /\ pb_frame = <<\h99>>
    /\ pb_prev = AfterTraffic
    /\ ~pb_ok
    /\ self = AfterTraffic

(* C4: whenever process_buffer returns False, no ReceiverState field       *)
(* differs from its value before the call.                                 *)
C4_NoPartialMutation == (Decoded /\ ~pb_ok) => StateUnchanged

(* a 0x8f 0xab frame one byte short was refused by a fresh object *)
C4_Witness ==
    /\ Decoded
    /\ HasSubId(\h8f, \hab)
    /\ Len(pb_frame) = 17
    /\ pb_prev = Thunderbolt
    /\ ~pb_ok
    /\ ~self.connected

(* the frame is of a recognized layout and too short or too long for it *)
WrongLength ==
    \/ HasSubId(\h8f, \hab) /\ Len(pb_frame) # 18
    \/ HasSubId(\h8f, \hac) /\ Len(pb_frame) # 69
    \/ HasId(\h6d) /\ Len(pb_frame) < 18
    \/ HasId(\h13) /\ Len(pb_frame) < 2
    \/ HasId(\h13) /\ Len(pb_frame) < 3 /\ pb_frame[2] \in {\h3c, \h8e}
    \/ HasId(\h8f) /\ Len(pb_frame) < 2

(* C5: a frame of a recognized layout whose length does not match the      *)
(* bytes the layout reads makes process_buffer return False, with the      *)
(* state unchanged.                                                        *)
C5_LengthChecking == (Decoded /\ WrongLength) => (~pb_ok /\ StateUnchanged)

(* C6: a frame whose id is on the ignore list, and a 0x8f frame whose      *)
(* sub-id is on the 0x8f ignore list, makes process_buffer return True and *)
(* leaves every ReceiverState field unchanged, whatever else it holds.     *)
C6_IgnoreLists ==
    Decoded =>
        /\ (\E id \in IgnoredIds : HasId(id)) => (pb_ok /\ StateUnchanged)
        /\ (\E sub \in Ignored8fSubIds : HasSubId(\h8f, sub))
              => (pb_ok /\ StateUnchanged)

(* 0x8f 0xa7 with a format byte other than 0 was accepted without effect *)
C6_Witness ==
    /\ Decoded
    /\ pb_frame = <<\h8f, \ha7, 33>>
    /\ pb_prev = AfterTraffic
    /\ pb_ok
    /\ self = AfterTraffic

(* the fields of a decoded 0x8f 0xab frame *)
IsTimingFrame == HasSubId(\h8f, \hab) /\ Len(pb_frame) = 18

RawTimeOfWeek ==
    pb_frame[3] * 16777216 + pb_frame[4] * 65536 + pb_frame[5] * 256 + pb_frame[6]

RawWeek == pb_frame[7] * 256 + pb_frame[8]

RawUtcOffset ==
    LET u == pb_frame[9] * 256 + pb_frame[10] IN IF u >= 32768 THEN u - 65536 ELSE u

(* the week number in unixtime, for a time of week below 604800 *)
WeekUsed == (self.unixtime.d - 3657) \div 7

(* C7, as claimed: the week number used for the timestamp is the raw week  *)
(* number plus 1024.                                                       *)
C7_Original ==
    (Decoded /\ IsTimingFrame /\ pb_ok /\ RawTimeOfWeek < 604800)
        => WeekUsed = RawWeek + 1024

(* C7, amended: 1024 is added until the week number is at least 2048: the  *)
(* week number used is w + 2048 for w < 1024, w + 1024 for                 *)
(* 1024 <= w < 2048 and w itself for w >= 2048.                            *)
C7_WeekRollover ==
    (Decoded /\ IsTimingFrame /\ RawTimeOfWeek < 604800) =>
        /\ pb_ok
        /\ WeekUsed = IF RawWeek < 1024 THEN RawWeek + 2048
                      ELSE IF RawWeek < 2048 THEN RawWeek + 1024
                      ELSE RawWeek

(* raw week 1000 was decoded, and the week used is 3048 *)
C7_Witness ==
    /\ Decoded
    /\ IsTimingFrame
    /\ pb_ok
    /\ RawWeek = 1000
    /\ WeekUsed = 3048

(* n in decimal, two digits at least *)
TwoDigits(n) ==
    IF n < 100 THEN <<Digit[(n \div 10) + 1], Digit[(n % 10) + 1]>>
    ELSE <<Digit[(n \div 100) + 1], Digit[((n \div 10) % 10) + 1], Digit[(n % 10) + 1]>>

(* C8: an 18-byte 0x8f 0xab frame with seconds s, minutes m, hours h makes *)
(* process_buffer return True, sets connected and sets tm to h, m and s,   *)
(* each padded with zeros to two digits, separated by colons.              *)
C8_PrimaryTiming ==
    (Decoded /\ IsTimingFrame) =>
        /\ pb_ok
        /\ self.connected
        /\ self.tm = TwoDigits(pb_frame[14]) \o <<":">> \o TwoDigits(pb_frame[13])
                        \o <<":">> \o TwoDigits(pb_frame[12])

(* 07:05:09 was decoded by an object that was not connected *)
C8_Witness ==
    /\ Decoded
    /\ IsTimingFrame
    /\ ~pb_prev.connected
    /\ self.connected
    /\ self.tm = <<"0", "7", ":", "0", "5", ":", "0", "9">>

(* C9: after a 0x8f 0xab frame is decoded, unixtime is                     *)
(* 315964800 + W * 604800 + T - U, with W the corrected week number, T the *)
(* time of week and U the UTC offset.                                      *)
C9_DerivedTimestamp ==
    (Decoded /\ IsTimingFrame /\ pb_ok) =>
        self.unixtime =
            plus_seconds(plus_weeks(Seconds(315964800), fix_week_number(RawWeek)),
                         RawTimeOfWeek - RawUtcOffset)

IsAscending(s) == \A i \in 1..(Len(s) - 1) : s[i] <= s[i + 1]

BagOfSeq(s) ==
    [x \in {s[i] : i \in DOMAIN s} |-> Cardinality({i \in DOMAIN s : s[i] = x})]

(* the bytes after the 18th of the frame, as signed bytes *)
TrailingSigned ==
    [i \in 1..(Len(pb_frame) - 18) |->
        IF pb_frame[18 + i] >= 128 THEN pb_frame[18 + i] - 256 ELSE pb_frame[18 + i]]

(* C10: satellites is ascending in every state, and after a 0x6d frame of  *)
(* 18 bytes or more is decoded it holds exactly the bytes after the 18th,  *)
(* read as signed bytes, duplicates kept, whatever their order on the wire *)
(* and whatever the count in bits 4-7 of the bit field.                    *)
C10_SatelliteList ==
    /\ IsAscending(self.satellites)
    /\ (Decoded /\ HasId(\h6d) /\ Len(pb_frame) >= 18) =>
        /\ pb_ok
        /\ Len(self.satellites) = Len(pb_frame) - 18
        /\ BagOfSeq(self.satellites) = BagOfSeq(TrailingSigned)

(* PRNs 2, -1, 2 with a count of 15 in the bit field were stored as -1, 2, 2 *)
C10_Witness ==
    /\ Decoded
    /\ pb_frame = frame_6d(\hf1, <<2, -1, 2>>)
    /\ pb_prev.satellites = <<-1, 2, 5>>
    /\ self.satellites = <<-1, 2, 2>>

-----------------------------------------------------------------------------
(* Fix dimension *)

IsSatFrame == HasId(\h6d) /\ Len(pb_frame) >= 18

(* the low 3 bits of the bit field *)
RawFixDim == pb_frame[2] % 8

FixDimWarned == "fix_dim not implemented" \in log

(* the table: 1 -> 1, 3 -> 2, 4 -> 3, 5 -> 5, anything else -> 0 *)
FixDimOf(r) ==
    CASE r = 1 -> 1 [] r = 3 -> 2 [] r = 4 -> 3 [] r = 5 -> 5 [] OTHER -> 0

(* C11, as claimed: a 0x6d frame whose bit field has low 3 bits r sets     *)
(* fix_dim to 1, 2, 3, 5, 0 for r = 1, 3, 4, 5, 0 without a warning, and   *)
(* to 0 with a warning for r = 2, 6, 7.                                    *)
C11_Original ==
    (Decoded /\ IsSatFrame) =>
        /\ self.fix_dim = FixDimOf(RawFixDim)
        /\ (FixDimWarned <=> RawFixDim \in {2, 6, 7})

(* C11, amended: as claimed for r = 1, 3, 4, 5 (no warning) and for        *)
(* r = 2, 6, 7 (fix_dim 0 and a warning); r = 0 also sets fix_dim to 0     *)
(* and logs the warning.                                                   *)
C11_FixDimMapping ==
    (Decoded /\ IsSatFrame) =>
        /\ pb_ok
        /\ self.fix_dim = FixDimOf(RawFixDim)
        /\ (FixDimWarned <=> RawFixDim \in {0, 2, 6, 7})

(* a bit field of 0 was decoded by an object with a 3D fix: fix_dim is 0   *)
(* and the warning was logged                                              *)
C11_Witness ==
    /\ Decoded
    /\ IsSatFrame
    /\ pb_frame[2] = 0
    /\ pb_prev.fix_dim = 3
    /\ self.fix_dim = 0
    /\ FixDimWarned

(* C12: in every state, from construction on and after any frame, fix_dim  *)
(* is one of 0, 1, 2, 3, 5.                                                *)
C12_FixDimRange == self.fix_dim \in {0, 1, 2, 3, 5}

(* raw code 6 was decoded by an object with a 3D fix, and fix_dim is 0 *)
C12_Witness ==
    /\ Decoded
    /\ IsSatFrame
    /\ RawFixDim = 6
    /\ pb_prev.fix_dim = 3
    /\ self.fix_dim = 0

-----------------------------------------------------------------------------
(* Secondary timing packet *)

IsHealthFrame == HasSubId(\h8f, \hac) /\ Len(pb_frame) = 69

(* the big-endian unsigned fields of the frame, at 0-based position p *)
WireU8(p) == pb_frame[p + 1]

WireU16(p) == pb_frame[p + 1] * 256 + pb_frame[p + 2]

WireU32(p) ==
    pb_frame[p + 1] * 16777216 + pb_frame[p + 2] * 65536
        + pb_frame[p + 3] * 256 + pb_frame[p + 4]

(* C13: after a 69-byte 0x8f 0xac frame is decoded, receiver_mode,         *)
(* discipline_mode, holdover_duration, critical_alarms, minor_alarms and   *)
(* gps_status are the big-endian fields at positions 2, 3, 5, 9, 11 and 13 *)
(* of the frame (u8, u8, u32, u16, u16, u8).                               *)
C13_IntegerFields ==
    (Decoded /\ IsHealthFrame) =>
        /\ pb_ok
        /\ self.receiver_mode = WireU8(2)
        /\ self.discipline_mode = WireU8(3)
        /\ self.holdover_duration = WireU32(5)
        /\ self.critical_alarms = WireU16(9)
        /\ self.minor_alarms = WireU16(11)
        /\ self.gps_status = WireU8(13)

(* a frame with six different field values replaced those of earlier traffic *)
C13_Witness ==
    /\ Decoded
    /\ IsHealthFrame
    /\ pb_prev = AfterTraffic
    /\ self.receiver_mode = 1
    /\ self.discipline_mode = 2
    /\ self.holdover_duration = \h01020304
    /\ self.critical_alarms = \h0506
    /\ self.minor_alarms = \h0708
    /\ self.gps_status = 9

(* the doubles of the frame, in 1/64ths: radians, radians, meters *)
WireLatitude == unpack_d(pb_frame, 37)

WireLongitude == unpack_d(pb_frame, 45)

WireAltitude == unpack_d(pb_frame, 53)

(* v is an integer nearest to n/d *)
Nearest(v, n, d) ==
    LET e == v * d - n IN 2 * (IF e < 0 THEN 0 - e ELSE e) <= d

(* C14, as claimed: latitude, longitude and altitude are the wire values   *)
(* (radians, radians, meters), with no conversion or scaling.              *)
C14_Original ==
    (Decoded /\ IsHealthFrame /\ pb_ok) =>
        /\ self.latitude * 64 = WireLatitude * 10000
        /\ self.longitude * 64 = WireLongitude * 10000
        /\ self.altitude * 64 = WireAltitude * 10

(* C14, amended: latitude and longitude are the wire values in radians     *)
(* times 57.29578 (degrees), rounded to 4 decimal places, and altitude is  *)
(* the wire value in meters times 3.2808398950131 (feet), rounded to 1     *)
(* decimal place.                                                          *)
C14_PositionFields ==
    (Decoded /\ IsHealthFrame) =>
        /\ pb_ok
        /\ Nearest(self.latitude, WireLatitude * 5729578, 640)
        /\ Nearest(self.longitude, WireLongitude * 5729578, 640)
        /\ Nearest(self.altitude, WireAltitude * 82021, 160000)

(* 1.0 rad, -2.0 rad and 256.0 m were stored as 57.2958, -114.5916 degrees *)
(* and 839.9 feet                                                          *)
C14_Witness ==
    /\ Decoded
    /\ IsHealthFrame
    /\ WireLatitude = 64
    /\ WireLongitude = -128
    /\ WireAltitude = 16384
    /\ self.latitude = 572958
    /\ self.longitude = -1145916
    /\ self.altitude = 8399

-----------------------------------------------------------------------------
(* Negative acknowledgement *)

NakWarned == "unparsable packet 0x013" \in log

(* the rejections that are accepted silently.  byte[1] and byte[2] are     *)
(* buffer[1] and buffer[2], the bytes process_buffer reads: bytes of the   *)
(* frame when the frame has them, else bytes an earlier frame left there.  *)
NakBenign ==
    \/ buffer[1] = \h1c
    \/ buffer[1] = \h8e /\ buffer[2] = \h4e
    \/ buffer[1] = \h3c /\ buffer[2] > 32

-----------------------------------------------------------------------------
(* Overrun and loss of framing *)

(* the byte about to be read is one that serial_server stores in buffer *)
Appends ==
    \/ reader_state = RS_READ /\ Head(wire) # DLE
    \/ reader_state = RS_READ_DLE /\ Head(wire) # ETX

(* C16: the iteration that stores the 256th byte of a frame, so that       *)
(* offset reaches 256 with no DLE ETX seen, logs the buffer-overrun error, *)
(* sets offset to 0 and the reader to INIT and does not invoke             *)
(* process_buffer; no other iteration logs that error, and process_buffer  *)
(* is never handed 256 bytes.                                              *)
C16_BufferOverrun ==
    [][ReadByte =>
        /\ (Appends /\ offset + 1 = BUFFER_SIZE) =>
              /\ "buffer overrun!" \in log'
              /\ offset' = 0
              /\ reader_state' = RS_INIT
              /\ pb_calls' = pb_calls
        /\ ~(Appends /\ offset + 1 = BUFFER_SIZE) => "buffer overrun!" \notin log'
        /\ Len(pb_frame') < BUFFER_SIZE]_vars

(* DLE, 255 bytes and DLE 0x55 were read: the 256th byte, stored in        *)
(* READ_DLE, overran the buffer and process_buffer was not invoked         *)
C16_Witness ==
    /\ sent = <<DLE>> \o Repeat(\h55, 255) \o <<DLE, \h55>>
    /\ wire = <<>>
    /\ "buffer overrun!" \in log
    /\ reader_state = RS_INIT
    /\ offset = 0
    /\ pb_calls = calls0

(* C17: when the device sends DLE and more than 256 frame bytes without    *)
(* DLE ETX and then a well-formed frame with payload p, process_buffer is  *)
(* invoked once, with p, returns True and leaves the object as decoding p  *)
(* leaves it.                                                              *)
C17_RecoveryAfterOverrun ==
    \A j \in StreamOverlong, p \in StreamPayloads :
        (sent = j \o tsip(p) /\ state0 = RS_INIT /\ wire = <<>>) =>
            /\ pb_calls = calls0 + 1
            /\ pb_frame = p
            /\ pb_ok
            /\ self = process_buffer(pb_prev, Overlay(ZeroBuffer, p), Len(p)).self

(* C18: when the device sends the start of a frame (DLE, id, ...) and,     *)
(* without DLE ETX, a whole frame with payload p, then the DLE of the new  *)
(* frame makes the reader log 'data lost.' and restart at offset 0, and    *)
(* process_buffer is invoked once, with p alone.                           *)
C18_FramingLoss ==
    \A q \in StreamPartial, p \in StreamPayloads :
        (sent = q \o tsip(p) /\ state0 = RS_INIT) =>
            /\ Len(wire) = Len(tsip(p)) - 1 =>
                  /\ "data lost." \in log
                  /\ offset = 0
                  /\ reader_state = RS_READ
            /\ wire = <<>> =>
                  /\ pb_calls = calls0 + 1
                  /\ pb_frame = p

-----------------------------------------------------------------------------
(* The liveness monitor *)

(* C19, as claimed: every iteration of alarm_server sets connected to true *)
(* when now - last_seen_tm is within 5000 ms and to false otherwise.       *)
C19_Original ==
    [][alarm_server =>
        (self'.connected <=> now - self.last_seen_tm <= 5000)]_vars

(* C19, amended: every iteration of alarm_server sets connected to true    *)
(* when now - last_seen_tm is less than 60000 ms and to false otherwise;   *)
(* so once no frame has been seen for 60000 ms or more, the next iteration *)
(* takes connected from true to false.                                     *)
C19_StalenessThreshold ==
    [][alarm_server =>
        (self'.connected <=> now - self.last_seen_tm < 60000)]_vars

(* exactly 60000 ms after the last frame an iteration took connected from  *)
(* true to false                                                           *)
C19_Witness ==
    /\ nticks >= 1
    /\ tick_prev
    /\ ~self.connected
    /\ now - self.last_seen_tm = 60000

(* C20: the iteration of serial_server that completes an 18-byte 0x8f 0xab *)
(* frame whose decode succeeds leaves connected true, and the iteration of *)
(* alarm_server that follows such a decode leaves it true.                 *)
C20_Reconnect ==
    [][/\ (/\ ReadByte
           /\ pb_calls' = pb_calls + 1
           /\ pb_ok'
           /\ Len(pb_frame') = 18
           /\ pb_frame'[1] = \h8f
           /\ pb_frame'[2] = \hab) => self'.connected
       /\ (/\ alarm_server
           /\ pb_calls > tick_calls
           /\ pb_ok
           /\ IsTimingFrame
           /\ self.connected) => self'.connected]_vars

(* an object that alarm_server had taken to not connected decoded a 0x8f   *)
(* 0xab frame, was connected at once and still is after the next iteration *)
(* of alarm_server                                                         *)
C20_Witness ==
    /\ nticks = 2
    /\ pb_calls = 1
    /\ tick_calls = 1
    /\ IsTimingFrame
    /\ pb_ok
    /\ pb_prev.fix_dim = 3
    /\ ~pb_prev.connected
    /\ tick_prev
    /\ self.connected

(* C21: an object that has decoded no timing packet (tm is still empty)    *)
(* and whose frames all fail to decode is not connected after an iteration *)
(* of alarm_server that runs more than the threshold after the clock's 0,  *)
(* the value last_seen_tm starts from.                                     *)
C21_PersistentFailures ==
    [][(alarm_server /\ self.tm = <<>> /\ now > ALARM_TIMEOUT_MS)
          => ~self'.connected]_vars

(* C22: last_seen_tm becomes the current clock value in exactly the steps  *)
(* of serial_server that read the ETX ending a frame (DLE ... DLE ETX),    *)
(* whether the frame then decodes, is ignored or fails; no other step of   *)
(* serial_server and no iteration of alarm_server changes it.              *)
EndsFrame == ReadByte /\ reader_state = RS_READ_DLE /\ Head(wire) = ETX

C22_LastSeenUpdate ==
    [][self'.last_seen_tm = IF EndsFrame THEN now ELSE self.last_seen_tm]_vars

(* after an iteration of alarm_server, the frame of the ignored packet     *)
(* 0x45 and the frame of the unknown packet 0x99 have each set it          *)
C22_Witness ==
    /\ nticks >= 1
    /\ pb_calls = 1
    /\ pb_frame = <<\h45>>
    /\ pb_ok
    /\ now >= ALARM_SLEEP_MS
    /\ self.last_seen_tm = now

(* C23: in the program main() starts, alarm_server is scheduled as well as *)
(* serial_server: while the run flag is set, a sleep of alarm_server is    *)
(* pending or has ended, so its next iteration is to come.                 *)
C23_BothTasksRun == self.run => alarm_wake >= 0

(* C24: once serial_server has read its first byte, the bytes written to   *)
(* the device are the command 10 8E A5 00 45 00 00 10 03, once.            *)
StartupCommand == <<DLE, \h8e, \ha5, 0, \h45, 0, 0, DLE, ETX>>

HasReadByte == narrivals >= 1 /\ Len(wire) < Len(sent)

C24_StartupHandshake == HasReadByte => written = StartupCommand

(* C25: decoding a frame a second time, from the object the first decode   *)
(* left, returns the same result, logs the same and leaves every field of  *)
(* the object as the first decode left it.                                 *)
C25_Idempotence ==
    [][DecodeAgain => (self' = self /\ pb_ok' = pb_ok /\ log' = log)]_vars

(* a satellite list frame decoded twice that replaced the list of the      *)
(* object it was decoded on                                                *)
C25_Witness ==
    /\ pb_calls = 2
    /\ IsSatFrame
    /\ pb_ok
    /\ self.satellites # <<>>
    /\ self.satellites # AfterTraffic.satellites
    /\ pb_prev = self

(* C26: what a decode returns, logs and leaves in the object is what it    *)
(* returns, logs and leaves when buffer holds the same frame in            *)
(* buffer[0:offset] and any other bytes beyond it.                         *)
C26_FrameIndependence ==
    Decoded =>
        \A b \in PriorBuffers :
            process_buffer(pb_prev, Overlay(b, pb_frame), Len(pb_frame))
                = Ret(pb_ok, self, log)

(* C27: no step of serial_server raises.  After every byte read, offset    *)
(* and raw_offset are indices of the two 256-byte arrays, so the stores    *)
(* buffer[offset] = b and raw[raw_offset] = b of the next step are in      *)
(* range; process_buffer has returned True or False; the run flag is still *)
(* set; and when the step reported a buffer overrun or a decode failure,   *)
(* the reader is in RS_INIT with an empty buffer.                          *)
ReportedError ==
    {"buffer overrun!", "error processing buffer!"} \cap log' # {}

C27_NoProcessFailure ==
    [][ReadByte =>
          /\ offset' \in 0..(BUFFER_SIZE - 1)
          /\ raw_offset' \in 0..(BUFFER_SIZE - 1)
          /\ pb_ok' \in BOOLEAN
          /\ self'.run
          /\ ReportedError => (reader_state' = RS_INIT /\ offset' = 0)]_vars

(* a decode failure was reported in the second burst of bytes *)
C27_Witness ==
    /\ narrivals = 2
    /\ "error processing buffer!" \in log
    /\ ~pb_ok
    /\ reader_state = RS_INIT
    /\ self.run

(* C28: get_status changes no field of the object and returns the values   *)
(* the fields hold at the call; no decode and no iteration of alarm_server *)
(* changes a dict already returned; and no change the caller makes to the  *)
(* dict, its satellites list included, changes a field of the object.      *)
C28_StatusSnapshot ==
    [][/\ get_status => (self' = self /\ status' = <<status_of(self)>>)
       /\ (Decode \/ alarm_server) => status' = status
       /\ ChangeReturned => self' = self]_vars

(* C29: serial_server sleeps, and so lets time pass and alarm_server run,  *)
(* only in an iteration that found no data; an iteration that finds data   *)
(* reads one byte, and a frame that byte ends is decoded within the same   *)
(* step, with no time passing and no iteration of alarm_server before the  *)
(* next byte is read.                                                      *)
C29_YieldDiscipline ==
    [][/\ (now' # now) => wire = <<>>
       /\ (Sleep \/ SleepUntilAlarm) <=> (self.run /\ now' # now)
       /\ ReadByte <=> (wire # <<>> /\ wire' = Tail(wire))
       /\ ReadByte => (now' = now /\ nticks' = nticks)
       /\ EndsFrame => (pb_calls' = pb_calls + 1 /\ reader_state' = RS_INIT)
       /\ (nticks' # nticks) => wire \in {<<>>, sent}]_vars

(* a frame was read and decoded byte by byte, then serial_server slept and *)
(* alarm_server ran                                                        *)
C29_Witness ==
    /\ pb_calls = 1
    /\ pb_frame = SampleAB
    /\ wire = <<>>
    /\ nsleeps >= 1
    /\ nticks >= 1
    /\ tick_calls = 1

(* C30: an iteration of alarm_server whose sleep has ended is executed,    *)
(* whatever the device sends: it is not postponed for ever by the byte     *)
(* steps of serial_server.                                                 *)
TickDue == self.run /\ alarm_wake >= 0 /\ now >= alarm_wake

C30_BoundedLatency ==
    \A n \in 0..(MaxTicks - 1) : (TickDue /\ nticks = n) ~> (nticks > n)

(* C31: once the run flag is false, serial_server reads no further byte    *)
(* and does not sleep again, whatever its reader state; an iteration of    *)
(* alarm_server that runs then is its last; and both tasks have returned   *)
(* in the end.                                                             *)
C31_CooperativeShutdown ==
    /\ (~self.run /\ nticks < MaxTicks) ~> (serial_exited /\ alarm_wake < 0)
    /\ [][~self.run =>
            /\ <<reader_state, offset, raw_offset, nsleeps>>'
                    = <<reader_state, offset, raw_offset, nsleeps>>
            /\ Len(wire') >= Len(wire)
            /\ (nticks' # nticks) => alarm_wake' < 0]_vars

(* the flag was cleared in the middle of a frame, with alarm_server        *)
(* asleep: both tasks have returned, alarm_server after one more iteration *)
C31_Witness ==
    /\ ~self.run
    /\ serial_exited
    /\ alarm_wake < 0
    /\ reader_state = RS_READ
    /\ wire # <<>>
    /\ nticks = 1

(* what an observer compares: the dictionary without 'connected', which    *)
(* alarm_server also assigns                                               *)
telemetry_of(d) == [f \in (DOMAIN d) \ {"connected"} |-> d[f]]

(* the object after every assignment of the last process_buffer call *)
DecodeTarget ==
    process_buffer(pb_prev, Overlay(buffer, pb_frame), Len(pb_frame)).self

(* C32: while the assignments of a process_buffer call are under way no    *)
(* byte is read, alarm_server does not tick, get_status is not called and  *)
(* no second call starts; every dictionary get_status returns holds either *)
(* the values from before the last call or the values after all of its     *)
(* assignments, never some of each.                                        *)
C32_DecodeAtomicity ==
    [][/\ (pending # <<>>) =>
            /\ wire' = wire
            /\ nticks' = nticks
            /\ status' = status
            /\ pb_calls' = pb_calls
       /\ (status' # status /\ pb_calls > 0) =>
            \/ telemetry_of(status'[1]) = telemetry_of(status_of(pb_prev))
            \/ telemetry_of(status'[1]) = telemetry_of(status_of(DecodeTarget))]_vars

C32_Witness ==
    /\ pb_calls = 1
    /\ pb_frame = SampleAC
    /\ pending = <<>>
    /\ status # <<>>
    /\ status[1] = status_of(self)
    /\ status[1].receiver_mode # pb_prev.receiver_mode
    /\ status[1].latitude # pb_prev.latitude
    /\ status[1].altitude # pb_prev.altitude

(* serial_server has just printed 'error processing buffer!' and the dump *)
FailureReported == pb_calls' # pb_calls /\ ~pb_ok'

(* RS_INIT, b == DLE: a frame starts *)
FrameStarts == reader_state = RS_INIT /\ reader_state' = RS_READ

(* C33 as stated: a frame's start puts raw back to the one byte DLE, and   *)
(* the raw bytes dumped with a failure report are the bytes read from the  *)
(* frame's DLE to its DLE ETX, whatever their number.                      *)
C33_Original ==
    [][/\ FrameStarts => (raw_offset' = 1 /\ raw'[0] = DLE)
       /\ FailureReported => raw_dump' = captured']_vars

(* C33: a frame's start puts raw back to the one byte DLE, and the raw     *)
(* bytes dumped with a failure report are the bytes read from the frame's  *)
(* DLE to its DLE ETX when these are at most 256 (BUFFER_SIZE); when they  *)
(* are more, raw has overflowed and was restarted, and the dump is shorter *)
(* than the frame as sent.                                                 *)
C33_RawCapture ==
    [][/\ FrameStarts => (raw_offset' = 1 /\ raw'[0] = DLE)
       /\ (FailureReported /\ Len(captured') <= BUFFER_SIZE)
            => raw_dump' = captured'
       /\ (FailureReported /\ Len(captured') > BUFFER_SIZE)
            => Len(raw_dump') < Len(captured')]_vars

(* a rejected frame with a stuffed DLE byte that fills raw exactly, read    *)
(* behind a byte that belongs to no frame                                  *)
C33_Witness ==
    /\ pb_calls = 1
    /\ ~pb_ok
    /\ pb_frame = Repeat(\h99, 251) \o <<DLE>>
    /\ sent = <<\h55>> \o tsip(pb_frame)
    /\ wire = <<>>
    /\ raw_dump = tsip(pb_frame)
    /\ Len(raw_dump) = BUFFER_SIZE
    /\ raw_dump = captured

(* the step leaves every field of the object outside fs as it was *)
ChangesOnly(fs) == \A f \in (DOMAIN self) \ fs : self'[f] = self[f]

(* the step is part of a process_buffer call: it enters one or makes one   *)
(* of its assignments                                                      *)
InDecoder == pb_calls' # pb_calls \/ pending # <<>>

(* C34: an iteration of alarm_server changes no field of the object other  *)
(* than connected, a get_status call changes none, a byte read by          *)
(* serial_server that does not call process_buffer changes none other than *)
(* last_seen_tm, and so every change of a field other than connected and   *)
(* last_seen_tm is made inside a process_buffer call.                      *)
C34_WriterExclusivity ==
    [][/\ (nticks' # nticks) => ChangesOnly({"connected"})
       /\ (status' # status) => ChangesOnly({})
       /\ (Len(wire') < Len(wire) /\ ~InDecoder) => ChangesOnly({"last_seen_tm"})
       /\ ~InDecoder => ChangesOnly({"connected", "last_seen_tm"})]_vars

(* after a decode that wrote the nine fields of 0x8f 0xac on a new object  *)
(* the bytes of the next frame were read, alarm_server ran and changed     *)
(* connected, and get_status was called                                    *)
C34_Witness ==
    /\ pb_calls = 2
    /\ pb_frame = <<\h45>>
    /\ self.latitude # Thunderbolt.latitude
    /\ self.unixtime = Thunderbolt.unixtime
    /\ pending = <<>>
    /\ wire = <<>>
    /\ nticks >= 1
    /\ self.connected
    /\ ~tick_prev
    /\ status = <<status_of(self)>>

(* C35: whenever serial_server is at the top of its loop, offset and       *)
(* raw_offset are between 0 and 255, so buffer[offset] and raw[raw_offset] *)
(* are inside the buffers, and both buffers have their 256 bytes, whatever *)
(* the device has sent.                                                    *)
C35_InBoundsWrites ==
    /\ offset \in 0..(BUFFER_SIZE - 1)
    /\ raw_offset \in 0..(BUFFER_SIZE - 1)
    /\ DOMAIN buffer = 0..(BUFFER_SIZE - 1)
    /\ DOMAIN raw = 0..(BUFFER_SIZE - 1)

(* the last byte of each buffer was written: buffer by the 256th frame     *)
(* byte, which overran it, raw by the byte before, and a byte has been     *)
(* read since                                                              *)
C35_Witness ==
    /\ "buffer overrun!" \in log
    /\ buffer[BUFFER_SIZE - 1] = \h55
    /\ raw[BUFFER_SIZE - 1] = \h55
    /\ offset = 0
    /\ raw_offset = 1
    /\ reader_state = RS_INIT

(* serial_server has read everything the device has sent *)
AtFrameBoundary == wire = <<>> /\ fed # <<>>

Synchronized == reader_state = RS_INIT /\ offset = 0

(* the frame sent last went to process_buffer, alone and as it was *)
DeliveredIntact == pb_calls = calls0 + 1 /\ pb_frame = fed[Len(fed)]

(* C36 as stated: wherever serial_server was, after two well-formed frames *)
(* at the latest it is in RS_INIT with offset 0 when a frame ends, and a   *)
(* frame that arrives when it is so is delivered as it was sent and leaves *)
(* it so.                                                                  *)
C36_Original ==
    /\ (AtFrameBoundary /\ Len(fed) >= 2) => Synchronized
    /\ (AtFrameBoundary /\ state0 = RS_INIT) => (DeliveredIntact /\ Synchronized)

(* a frame of at most 254 bytes that starts with neither DLE nor ETX and   *)
(* does not end with DLE                                                   *)
Resynchronizing(p) ==
    /\ Len(p) \in 1..(BUFFER_SIZE - 2)
    /\ p[1] \notin {DLE, ETX}
    /\ p[Len(p)] # DLE

(* C36: wherever serial_server was, after two well-formed frames at the    *)
(* latest it is in RS_INIT with offset 0 when a frame ends, provided the   *)
(* frames sent have at most 254 bytes, start with neither DLE nor ETX and  *)
(* do not end with DLE; any well-formed frame that arrives when it is so   *)
(* is delivered as it was sent and leaves it so.                           *)
C36_Resynchronization ==
    /\ (/\ AtFrameBoundary
        /\ Len(fed) >= 2
        /\ \A i \in 1..Len(fed) : Resynchronizing(fed[i])) => Synchronized
    /\ (AtFrameBoundary /\ state0 = RS_INIT) => (DeliveredIntact /\ Synchronized)

(* serial_server had a full buffer when the first frame came: that frame   *)
(* overran it, the second brought it back to RS_INIT, the third was        *)
(* delivered as sent                                                       *)
C36_Witness ==
    /\ fed = <<Repeat(\h99, BUFFER_SIZE - 2), Repeat(\h99, BUFFER_SIZE - 2),
               <<\h99, DLE, ETX, \h99>>>>
    /\ wire = <<>>
    /\ narrivals = 4
    /\ state0 = RS_INIT
    /\ Synchronized
    /\ DeliveredIntact

(* the frame being read, or read last, arrived whole when serial_server    *)
(* was in RS_INIT                                                          *)
SentFromInit == fed # <<>> /\ state0 = RS_INIT

(* C37: a payload of 1 to 255 bytes sent as DLE, the payload with every    *)
(* DLE doubled, DLE ETX to a serial_server in RS_INIT makes one call of    *)
(* process_buffer, at the last byte and not before, and the frame of that  *)
(* call is the payload.                                                    *)
C37_StuffingRoundTrip ==
    /\ (SentFromInit /\ wire # <<>>) => pb_calls = calls0
    /\ (SentFromInit /\ wire = <<>>) =>
            /\ pb_calls = calls0 + 1
            /\ Len(pb_frame) \in 1..(BUFFER_SIZE - 1)
            /\ sent = <<DLE>> \o stuff(pb_frame) \o <<DLE, ETX>>

(* the payload DLE ETX 0x99, sent as 10 10 10 03 99 10 03, was delivered   *)
C37_Witness ==
    /\ SentFromInit
    /\ wire = <<>>
    /\ sent = <<DLE, DLE, DLE, ETX, \h99, DLE, ETX>>
    /\ pb_frame = <<DLE, ETX, \h99>>
    /\ pb_calls = calls0 + 1

(* C38: whenever serial_server is in RS_INIT, offset is 0, whatever the    *)
(* device has sent.                                                        *)
C38_OffsetZeroInInit == reader_state = RS_INIT => offset = 0

(* RS_INIT was reached again by the end of a frame that came behind an     *)
(* overrun, with bytes before it that belong to no frame                   *)
C38_Witness ==
    /\ reader_state = RS_INIT
    /\ offset = 0
    /\ wire = <<>>
    /\ pb_calls = 1
    /\ Len(pb_frame) > 0
    /\ Len(sent) > BUFFER_SIZE

(* C39: every frame handed to process_buffer has between 1 and 255 bytes:  *)
(* process_buffer is never called with offset = 0 and never with 256 or    *)
(* more, whatever the device has sent.                                     *)
C39_DeliveredFrameLength ==
    pb_calls > 0 => Len(pb_frame) \in 1..(BUFFER_SIZE - 1)

(* C40: as long as serial_server has completed no frame and last_seen_tm   *)
(* has its first value 0, connected is false: no iteration of alarm_server *)
(* sets it, whatever the clock shows then.                                 *)
C40_NoConnectionBeforeTraffic ==
    (pb_calls = 0 /\ self.last_seen_tm = 0) => ~self.connected

=============================================================================
